---- MODULE Spec2Model ----
(***************************************************************************)
(* Model of dotbot-js: the link reconciliation engine (plugins/link.ts),   *)
(* the create / clean / shell handlers, the Context and the Dispatcher.    *)
(*                                                                         *)
(* A path is a sequence of components; an absolute path starts with "/".   *)
(* The filesystem is a function from the physical paths that exist to      *)
(* their nodes; the root directory is implicit.                            *)
(***************************************************************************)
EXTENDS Integers, Sequences, FiniteSets, TLC

VARIABLES
  fs,        \* the filesystem: physical path -> node
  fs0,       \* the filesystem when the process started
  baseDir,   \* Context._baseDirectory
  defaults,  \* Context._defaults: directive name -> option mapping
  dryRun,    \* CLIOptions.dryRun of the current invocation
  exitOnFailure, \* Dispatcher._exit
  only,      \* Dispatcher._only: [def, v]
  skip,      \* Dispatcher._skip: [def, v]
  plugins,   \* Dispatcher._plugins: the class names of the instances
  ctxPlugins, \* Context._plugins: the class names
  success,   \* the local `success` of Dispatcher.dispatch
  pc,        \* "running" while dispatch iterates, "done" once it returned
  result,    \* the value dispatch returned
  last,      \* what the last iteration of dispatch did
  defHist,   \* the payloads of the last two defaults directives
  seen,      \* the kinds of failure met so far
  shellRan,  \* the commands of shell directives that were executed
  runs,      \* number of invocations of Link.handle so far
  prev,      \* record of the invocation before the last one
  cur,       \* record of the last invocation of Link.handle
  heap,      \* the objects of the Context and of its callers: address -> object
  ctx,       \* Context._defaults and Context._options: the objects they refer to
  held,      \* the snapshots the handlers hold: references to objects
  ret,       \* the value the last step returned, if a call of defaults() or options()
  task,      \* the iteration of dispatch in progress: directive, handler, calls in flight
  msgr       \* the Messenger singleton: its _level, and what was asked of it

vars == <<fs, fs0, baseDir, defaults, dryRun, exitOnFailure, only, skip,
          plugins, ctxPlugins, success, pc, result, last, defHist, seen,
          shellRan, runs, prev, cur, heap, ctx, held, ret, task, msgr>>

CtxVars == <<heap, ctx, held, ret>>

StepVars == <<task, msgr>>

\* ------------------------------------------------------------------ bounds
MaxSymlinkHops == 3
MaxRuns == 2
MaxPlugins == 6
MaxDirectives == 3
MaxConstructions == 3

\* ------------------------------------------------------------------ paths
Root == <<"/">>
\* the empty mapping
NoMap == [k \in {} |-> TRUE]
NoPath == <<>>

\* `const x = v; ...`: the value v is computed once and named in what follows
Let(v, F(_)) == F(v)

dirname(p) == IF Len(p) <= 1 THEN Root ELSE SubSeq(p, 1, Len(p) - 1)

basename(p) == IF Len(p) <= 1 THEN "" ELSE p[Len(p)]

RECURSIVE NormAcc(_, _)
NormAcc(acc, rest) ==
  IF rest = <<>> THEN acc
  ELSE LET c == Head(rest) IN
       IF c = ".."
       THEN IF Len(acc) > 1 /\ acc[Len(acc)] # ".."
            THEN NormAcc(SubSeq(acc, 1, Len(acc) - 1), Tail(rest))
            ELSE IF Len(acc) >= 1 /\ acc[1] = "/"
                 THEN NormAcc(acc, Tail(rest))
                 ELSE NormAcc(Append(acc, c), Tail(rest))
       ELSE NormAcc(Append(acc, c), Tail(rest))

\* path.normalize
normalize(p) == NormAcc(<<>>, p)

\* path.join(a, b): concatenation followed by normalisation
join(a, b) ==
  normalize(a \o (IF Len(b) > 0 /\ b[1] = "/" THEN Tail(b) ELSE b))

\* path.resolve of a path that is already absolute: lexical normalisation,
\* symbolic links are NOT followed
resolve(p) == normalize(p)

RECURSIVE CommonLen(_, _)
CommonLen(a, b) ==
  IF a = <<>> \/ b = <<>> \/ Head(a) # Head(b) THEN 0
  ELSE 1 + CommonLen(Tail(a), Tail(b))

\* path.relative(from, to) for absolute normalised paths
relative(from, to) ==
  Let(CommonLen(from, to), LAMBDA k :
    [i \in 1..(Len(from) - k) |-> ".."] \o SubSeq(to, k + 1, Len(to)))

\* ------------------------------------------------------------- filesystem
\* a node: its kind, the target a symbolic link records, and the st_ino and
\* st_dev that stat reports for it
DirNode == [kind |-> "dir", tgt |-> <<>>, ino |-> 0, dev |-> 0]
FileNode(i) == [kind |-> "file", tgt |-> <<>>, ino |-> i, dev |-> 0]
LinkNode(t) == [kind |-> "link", tgt |-> t, ino |-> 0, dev |-> 0]
\* the node n on the device d
OnDevice(n, d) == [n EXCEPT !.dev = d]

Has(f, q) == q # NoPath /\ (q = Root \/ q \in DOMAIN f)

KindAt(f, q) ==
  IF q = NoPath THEN "none"
  ELSE IF q = Root THEN "dir"
  ELSE IF q \in DOMAIN f THEN f[q].kind ELSE "none"

\* the device of the node at the physical location q
DevAt(f, q) == IF q \in DOMAIN f THEN f[q].dev ELSE 0

RECURSIVE Res(_, _, _)
RECURSIVE LRes(_, _, _)
\* physical location of the entry named by p: the parent is resolved through
\* symbolic links, the last component is not (lstat); NoPath when the parent
\* is not a directory
LRes(f, p, fuel) ==
  IF Len(p) <= 1 THEN Root
  ELSE Let(Res(f, dirname(p), fuel), LAMBDA par :
         IF KindAt(f, par) # "dir" THEN NoPath
         ELSE Append(par, p[Len(p)]))

\* physical location of p with every symbolic link followed (stat/realpath);
\* NoPath on a missing parent or on too many levels of links
Res(f, p, fuel) ==
  Let(LRes(f, p, fuel), LAMBDA q :
    IF KindAt(f, q) = "link"
    THEN IF fuel = 0 THEN NoPath
         ELSE Let(f[q].tgt, LAMBDA t :
                Res(f, IF Len(t) > 0 /\ t[1] = "/" THEN normalize(t)
                       ELSE join(dirname(q), t), fuel - 1))
    ELSE q)

lpath(f, p) == LRes(f, p, MaxSymlinkHops)
rpath(f, p) == Res(f, p, MaxSymlinkHops)

\* fs.existsSync
existsSync(f, p) == Has(f, rpath(f, p))
\* fs.lstatSync succeeds
lstatOk(f, p) == Has(f, lpath(f, p))
\* fs.lstatSync(p).isSymbolicLink()
lstatIsLink(f, p) == KindAt(f, lpath(f, p)) = "link"
\* fs.statSync(p).isDirectory()
statIsDir(f, p) == KindAt(f, rpath(f, p)) = "dir"
\* fs.readlinkSync
readlinkSync(f, p) == f[lpath(f, p)].tgt
\* fs.statSync(a).ino === fs.statSync(b).ino: the same node, or two names
\* of one file
statSameIno(f, a, b) ==
  Let(rpath(f, a), LAMBDA ra : Let(rpath(f, b), LAMBDA rb :
    /\ Has(f, ra)
    /\ Has(f, rb)
    /\ \/ ra = rb
       \/ /\ KindAt(f, ra) = "file"
          /\ KindAt(f, rb) = "file"
          /\ f[ra].ino = f[rb].ino))

IsPrefix(a, b) == Len(a) <= Len(b) /\ SubSeq(b, 1, Len(a)) = a

Without(f, S) == [x \in (DOMAIN f \ S) |-> f[x]]

\* result of a filesystem call: the new filesystem, whether the call
\* succeeded, and the mutations it performed
FsRes(f, ok, muts) == [fs |-> f, ok |-> ok, muts |-> muts]

\* fs.unlinkSync / fs.rmSync of a non-directory
unlinkSync(f, p) ==
  Let(lpath(f, p), LAMBDA q :
    IF Has(f, q) /\ q # Root /\ f[q].kind # "dir"
    THEN FsRes(Without(f, {q}), TRUE, <<<<"unlink", q>>>>)
    ELSE FsRes(f, FALSE, <<>>))

\* fs.rmSync(p, {recursive: true, force: true})
rmSyncRecursive(f, p) ==
  Let(lpath(f, p), LAMBDA q :
    IF Has(f, q) /\ q # Root
    THEN FsRes(Without(f, {x \in DOMAIN f : IsPrefix(q, x)}), TRUE,
               <<<<"rm", q>>>>)
    ELSE FsRes(f, TRUE, <<>>))

RECURSIVE mkdirSyncRecursive(_, _)
\* fs.mkdirSync(p, {recursive: true})
mkdirSyncRecursive(f, p) ==
  IF Len(p) <= 1 THEN FsRes(f, TRUE, <<>>)
  ELSE Let(mkdirSyncRecursive(f, dirname(p)), LAMBDA r :
         IF ~r.ok THEN r
         ELSE Let(lpath(r.fs, p), LAMBDA q :
                IF statIsDir(r.fs, p) THEN r
                ELSE IF Has(r.fs, q) \/ q = NoPath
                     THEN FsRes(r.fs, FALSE, r.muts)
                ELSE FsRes((q :> OnDevice(DirNode, DevAt(r.fs, dirname(q))))
                             @@ r.fs, TRUE,
                           Append(r.muts, <<"mkdir", q>>))))

\* fs.symlinkSync(target, p)
symlinkSync(f, t, p) ==
  Let(lpath(f, p), LAMBDA q :
    IF q = NoPath \/ Has(f, q) THEN FsRes(f, FALSE, <<>>)
    ELSE FsRes((q :> OnDevice(LinkNode(t), DevAt(f, dirname(q)))) @@ f, TRUE,
               <<<<"symlink", q>>>>))

\* fs.linkSync(existing, p): fails (EXDEV) across devices
linkSync(f, existing, p) ==
  Let(lpath(f, p), LAMBDA q : Let(rpath(f, existing), LAMBDA s :
    IF q = NoPath \/ Has(f, q) \/ KindAt(f, s) # "file"
       \/ DevAt(f, s) # DevAt(f, dirname(q))
    THEN FsRes(f, FALSE, <<>>)
    ELSE FsRes((q :> f[s]) @@ f, TRUE, <<<<"link", q>>>>)))

\* ---------------------------------------------------------------- Context
\* Context.baseDirectory(canonicalPath)
baseDirectory(base, canonicalPath) ==
  IF canonicalPath THEN resolve(base) ELSE base

\* ------------------------------------------------------------ Link engine
\* exit status of the shell command of an `if` test
shellCommand(cmd) == IF cmd = "true" THEN 0 ELSE 1

\* a conditional gate that lets every entry pass
testSuccess_Always(cmd) == TRUE

\* Link._testSuccess
testSuccess(cmd) == shellCommand(cmd) = 0

\* a resolution that never reads the boolean options of the defaults
DefTrue_Ignored(defs, k) == FALSE

\* `defaults.x === true`
DefTrue(defs, k) == k \in DOMAIN defs /\ defs[k] = TRUE

\* a ?? b on option mappings: the entry's value when it gives one
Coalesce(opts, k, fallback) == IF k \in DOMAIN opts THEN opts[k] ELSE fallback

\* Link._processLinks, option resolution of one entry
ResolveOptions(defs, opts) ==
  [ relative      |-> Coalesce(opts, "relative", DefTrue(defs, "relative")),
    canonicalPath |-> Coalesce(opts, "canonicalize",
                        Coalesce(opts, "canonicalize-path",
                          Coalesce(defs, "canonicalize",
                            Coalesce(defs, "canonicalize-path", TRUE)))),
    linkType      |-> Coalesce(opts, "type", Coalesce(defs, "type", "symlink")),
    force         |-> Coalesce(opts, "force", DefTrue(defs, "force")),
    relink        |-> Coalesce(opts, "relink", DefTrue(defs, "relink")),
    create        |-> Coalesce(opts, "create", DefTrue(defs, "create")),
    useGlob       |-> Coalesce(opts, "glob", DefTrue(defs, "glob")),
    basePrefix    |-> Coalesce(opts, "prefix", Coalesce(defs, "prefix", "")),
    excludePaths  |-> Coalesce(opts, "exclude", Coalesce(defs, "exclude", <<>>)),
    test          |-> Coalesce(opts, "if", Coalesce(defs, "if", "")),
    ignoreMissing |-> Coalesce(opts, "ignore-missing",
                               DefTrue(defs, "ignore-missing")) ]

\* result of a step of the engine
StepRes(f, ok, muts, acts) == [ok |-> ok, fs |-> f, muts |-> muts, acts |-> acts]

\* Link._create
Link_create(f, dry, path) ==
  Let(resolve(join(path, <<"..">>)), LAMBDA parent :
    IF ~existsSync(f, parent)
    THEN IF dry THEN StepRes(f, TRUE, <<>>, <<<<"mkdir", parent>>>>)
         ELSE Let(mkdirSyncRecursive(f, parent), LAMBDA r :
                IF r.ok THEN StepRes(r.fs, TRUE, r.muts, <<<<"mkdir", parent>>>>)
                ELSE StepRes(r.fs, FALSE, r.muts, <<>>))
    ELSE StepRes(f, TRUE, <<>>, <<>>))

\* an engine that records the absolute target whatever `relative` says
relativePath_Absolute(target, linkName) == target

\* Link._relativePath
relativePath(target, linkName) == relative(dirname(linkName), target)

DelRes(f, removed, ok, muts, acts) ==
  [fs |-> f, removed |-> removed, ok |-> ok, muts |-> muts, acts |-> acts]

\* a removal rule that forgets stale symbolic links
shouldRemove_NoStale(f, path, effectiveTarget) ==
  lstatOk(f, path) /\ ~lstatIsLink(f, path)

\* Link._delete, `shouldRemove`
shouldRemove(f, path, effectiveTarget) ==
  \/ (lstatIsLink(f, path) /\ readlinkSync(f, path) # effectiveTarget)
  \/ (lstatOk(f, path) /\ ~lstatIsLink(f, path))

\* Link._delete
Link_delete(f, base, dry, target, path, o) ==
  Let(join(baseDirectory(base, o.canonicalPath), target), LAMBDA targetPath :
  Let(resolve(path), LAMBDA fullpath :
  Let(IF o.relative THEN relativePath(targetPath, fullpath) ELSE targetPath,
      LAMBDA effectiveTarget :
    IF existsSync(f, path) /\ ~lstatIsLink(f, path)
       /\ resolve(fullpath) = resolve(targetPath)
    THEN DelRes(f, FALSE, FALSE, <<>>, <<>>)
    ELSE IF ~shouldRemove(f, path, effectiveTarget)
    THEN DelRes(f, FALSE, TRUE, <<>>, <<>>)
    ELSE IF dry THEN DelRes(f, TRUE, TRUE, <<>>, <<<<"remove", path>>>>)
    ELSE IF lstatIsLink(f, fullpath)
         THEN Let(unlinkSync(f, fullpath), LAMBDA r :
                DelRes(r.fs, r.ok, r.ok, r.muts,
                       IF r.ok THEN <<<<"remove", path>>>> ELSE <<>>))
    ELSE IF o.force
         THEN Let(IF statIsDir(f, fullpath)
                  THEN rmSyncRecursive(f, fullpath)
                  ELSE unlinkSync(f, fullpath), LAMBDA r :
                DelRes(r.fs, r.ok, r.ok, r.muts,
                       IF r.ok THEN <<<<"remove", path>>>> ELSE <<>>))
    ELSE DelRes(f, FALSE, TRUE, <<>>, <<>>))))

\* a link step that accepts any symbolic link found at the link path
linkExists_AnyLink(f, linkName, linkType, targetPath) == linkType = "symlink"

\* Link._link, the case of a link path that is a symbolic link
linkExists(f, linkName, linkType, targetPath) ==
  linkType = "symlink" /\ readlinkSync(f, linkName) = targetPath

\* Link._link
Link_link(f, base, dry, target, linkName, o, didDelete) ==
  Let(resolve(linkName), LAMBDA linkPath :
  Let(join(baseDirectory(base, o.canonicalPath), target), LAMBDA absoluteTarget :
  Let(IF o.relative THEN relativePath(absoluteTarget, linkPath)
      ELSE absoluteTarget, LAMBDA targetPath :
    IF (~lstatOk(f, linkName) \/ (dry /\ didDelete))
       /\ (o.ignoreMissing \/ existsSync(f, absoluteTarget))
    THEN IF dry THEN StepRes(f, TRUE, <<>>, <<<<"create", linkName>>>>)
         ELSE Let(IF o.linkType = "symlink"
                  THEN symlinkSync(f, targetPath, linkPath)
                  ELSE linkSync(f, absoluteTarget, linkPath), LAMBDA r :
                StepRes(r.fs, r.ok, r.muts,
                        IF r.ok THEN <<<<"create", linkName>>>> ELSE <<>>))
    ELSE IF ~existsSync(f, absoluteTarget) THEN StepRes(f, FALSE, <<>>, <<>>)
    ELSE IF lstatIsLink(f, linkName)
         THEN StepRes(f, linkExists(f, linkName, o.linkType, targetPath),
                      <<>>, <<>>)
    ELSE IF o.linkType = "hardlink" /\ statSameIno(f, linkPath, absoluteTarget)
         THEN StepRes(f, TRUE, <<>>, <<>>)
    ELSE StepRes(f, FALSE, <<>>, <<>>))))

\* sequencing of two steps of one entry
\* a sequencing that keeps the outcome of the later step only
Then_LastWins(a, b) == StepRes(b.fs, b.ok, a.muts \o b.muts, a.acts \o b.acts)

Then(a, b) == StepRes(b.fs, a.ok /\ b.ok, a.muts \o b.muts, a.acts \o b.acts)

\* ------------------------------------------------------------------ glob
\* A pattern is a relative path whose components may be the wildcards "*",
\* "**" and "private*"; the names of the modelled tree are matched by table.
GlobSegments == {"*", "**", "private*"}
PrivateNames == {"private", "private.d"}

\* Link._hasGlobChars
hasGlobChars(path) == \E i \in 1..Len(path) : path[i] \in GlobSegments

\* one component of a pattern against one name (dot: true)
SegMatch(seg, name) ==
  \/ seg = name
  \/ seg = "*"
  \/ (seg = "private*" /\ name \in PrivateNames)

\* the pattern matches the relative path; "**" spans any number of
\* directories and, as the last component, everything below
RECURSIVE PatMatch(_, _)
PatMatch(pat, q) ==
  IF pat = <<>> THEN q = <<>>
  ELSE IF Head(pat) = "**"
  THEN IF Tail(pat) = <<>> THEN q # <<>>
       ELSE PatMatch(Tail(pat), q) \/ (q # <<>> /\ PatMatch(pat, Tail(q)))
  ELSE q # <<>> /\ SegMatch(Head(pat), Head(q)) /\ PatMatch(Tail(pat), Tail(q))

\* process.cwd() after cli.ts has done process.chdir(baseDirectory)
Cwd(f, base) == rpath(f, resolve(base))

\* the relative paths fast-glob visits, in the order of its walk
WalkOrder ==
  << <<"config">>, <<"config", ".hidden">>, <<"config", "private">>,
     <<"config", "private.d">>,
     <<"config", "private.d", "key">>, <<"config", "public">> >>

\* fs.statSync(f).isFile()
statIsFile(f, p) == KindAt(f, rpath(f, p)) = "file"

\* fast-glob with dot: true and onlyFiles: false: the visited paths that
\* exist and match
RECURSIVE fg(_, _, _, _)
fg(f, base, pattern, walk) ==
  IF walk = <<>> THEN <<>>
  ELSE (IF lstatOk(f, join(Cwd(f, base), Head(walk)))
           /\ PatMatch(pattern, Head(walk))
        THEN <<Head(walk)>> ELSE <<>>)
       \o fg(f, base, pattern, Tail(walk))

\* found.filter(f => statSync(f).isFile())
RECURSIVE OnlyFiles(_, _, _)
OnlyFiles(f, base, found) ==
  IF found = <<>> THEN <<>>
  ELSE (IF statIsFile(f, join(Cwd(f, base), Head(found)))
        THEN <<Head(found)>> ELSE <<>>)
       \o OnlyFiles(f, base, Tail(found))

\* Link._glob: for a pattern that contains "**", only the regular files
Link_glob(f, base, pattern) ==
  IF \E i \in 1..Len(pattern) : pattern[i] = "**"
  THEN OnlyFiles(f, base, fg(f, base, pattern, WalkOrder))
  ELSE fg(f, base, pattern, WalkOrder)

\* the set of the elements of a sequence
Range(seq) == { seq[i] : i \in 1..Len(seq) }

\* the union of the results of the exclude patterns
RECURSIVE ExcludeSet(_, _, _)
ExcludeSet(f, base, excludePatterns) ==
  IF excludePatterns = <<>> THEN {}
  ELSE Range(Link_glob(f, base, Head(excludePatterns)))
       \cup ExcludeSet(f, base, Tail(excludePatterns))

\* include.filter(item => !excludeSet.has(item))
RECURSIVE NotExcluded(_, _)
NotExcluded(include, exclude) ==
  IF include = <<>> THEN <<>>
  ELSE (IF Head(include) \notin exclude THEN <<Head(include)>> ELSE <<>>)
       \o NotExcluded(Tail(include), exclude)

\* Link._createGlobResults
Link_createGlobResults(f, base, pattern, excludePatterns) ==
  NotExcluded(Link_glob(f, base, pattern),
              ExcludeSet(f, base, excludePatterns))

\* the characters two components share at their start: none when the
\* pattern component starts with "*"
SharedPart(seg, name) ==
  IF seg = name THEN name
  ELSE IF seg = "private*" /\ name \in PrivateNames THEN "private"
  ELSE ""

\* String.slice(2) of a name of the tree
SliceTwo(name) == IF name = "config" THEN "nfig" ELSE ""

\* basePrefix + globItem, on the first component
Concat(prefix, name) ==
  CASE prefix = ""                         -> name
    [] prefix = "dot_" /\ name = "nfig"     -> "dot_nfig"
    [] prefix = "dot_" /\ name = "private"  -> "dot_private"
    [] prefix = "dot_" /\ name = "private.d" -> "dot_private.d"
    [] prefix = "dot_" /\ name = "public"   -> "dot_public"
    [] OTHER                               -> "dot_"

\* `globItem`: the match without dirname(commonPrefix([path, match])).
\* The common prefix is taken by characters; when it ends at a separator,
\* path.dirname drops its last directory, and gives "." when there is only
\* one, so that two characters are sliced off the match.
globItem(path, globFullItem) ==
  Let(CommonLen(path, globFullItem), LAMBDA k :
    IF k < Len(path) /\ k < Len(globFullItem)
       /\ SharedPart(path[k + 1], globFullItem[k + 1]) # "" /\ k >= 1
    THEN SubSeq(globFullItem, k + 1, Len(globFullItem))
    ELSE IF k >= 2 THEN SubSeq(globFullItem, k, Len(globFullItem))
    ELSE <<SliceTwo(Head(globFullItem))>> \o Tail(globFullItem))

\* `finalGlobItem`
finalGlobItem(basePrefix, item) ==
  IF basePrefix # "" THEN <<Concat(basePrefix, Head(item))>> \o Tail(item)
  ELSE item

\* Link._processLinks, the body of the loop over the matches of a glob
\* entry; the record of the steps starts with the match they are run for
GlobItem(f, base, dry, e, o, globFullItem) ==
  Let(join(e.link, finalGlobItem(o.basePrefix, globItem(e.path, globFullItem))),
      LAMBDA globLinkName :
  Let(IF o.create THEN Link_create(f, dry, globLinkName)
      ELSE StepRes(f, TRUE, <<>>, <<>>), LAMBDA c :
  Let(IF o.force \/ o.relink
      THEN Link_delete(c.fs, base, dry, globFullItem, globLinkName, o)
      ELSE DelRes(c.fs, FALSE, TRUE, <<>>, <<>>), LAMBDA d :
    Then(StepRes(f, TRUE, <<>>, <<<<"match", globFullItem>>>>),
         Then(c, Then(StepRes(d.fs, d.ok, d.muts, d.acts),
                      Link_link(d.fs, base, dry, globFullItem, globLinkName,
                                o, d.removed)))))))

RECURSIVE GlobItems(_, _, _, _, _, _)
GlobItems(f, base, dry, e, o, globResults) ==
  IF globResults = <<>> THEN StepRes(f, TRUE, <<>>, <<>>)
  ELSE Let(GlobItem(f, base, dry, e, o, Head(globResults)), LAMBDA r :
         Then(r, GlobItems(r.fs, base, dry, e, o, Tail(globResults))))

\* an engine without the early test of the target
MissingTarget_Never(f, base, o, path) == FALSE

\* Link._processLinks, `!ignoreMissing && !this._exists(join(base, path))`
MissingTarget(f, base, o, path) ==
  ~o.ignoreMissing /\ ~existsSync(f, join(baseDirectory(base, TRUE), path))

\* Link._processLinks, the body of the loop for one entry
ProcessEntry(f, base, dry, defs, e) ==
  Let(ResolveOptions(defs, e.opts), LAMBDA o :
    IF o.linkType \notin {"symlink", "hardlink"}
    THEN StepRes(f, FALSE, <<>>, <<>>)
    ELSE IF o.test # "" /\ ~testSuccess(o.test)
    THEN StepRes(f, TRUE, <<>>, <<>>)
    ELSE IF o.useGlob /\ hasGlobChars(e.path)
    THEN GlobItems(f, base, dry, e, o,
                   Link_createGlobResults(f, base, e.path, o.excludePaths))
    ELSE
      Let(IF o.create THEN Link_create(f, dry, e.link)
          ELSE StepRes(f, TRUE, <<>>, <<>>), LAMBDA c :
        IF MissingTarget(c.fs, base, o, e.path)
        THEN Then(c, StepRes(c.fs, FALSE, <<>>, <<>>))
        ELSE
          Let(IF o.force \/ o.relink
              THEN Link_delete(c.fs, base, dry, e.path, e.link, o)
              ELSE DelRes(c.fs, FALSE, TRUE, <<>>, <<>>), LAMBDA d :
            Then(c, Then(StepRes(d.fs, d.ok, d.muts, d.acts),
                         Link_link(d.fs, base, dry, e.path, e.link, o,
                                   d.removed))))))

RECURSIVE ProcessEntries(_, _, _, _, _)
ProcessEntries(f, base, dry, defs, links) ==
  IF links = <<>> THEN StepRes(f, TRUE, <<>>, <<>>)
  ELSE Let(ProcessEntry(f, base, dry, defs, Head(links)), LAMBDA r :
         Then(r, ProcessEntries(r.fs, base, dry, defs, Tail(links))))

\* Link._processLinks
Link_processLinks(f, base, dry, defs, links) ==
  IF Coalesce(defs, "type", "symlink") \notin {"symlink", "hardlink"}
  THEN StepRes(f, FALSE, <<>>, <<>>)
  ELSE ProcessEntries(f, base, dry, defs, links)

\* ---------------------------------------------------------- Create plugin
\* a create step without the dry-run branch
Create_create_NoDryRun(f, dry, path) ==
  IF ~existsSync(f, path)
  THEN Let(mkdirSyncRecursive(f, path), LAMBDA r :
         StepRes(r.fs, r.ok, r.muts, <<<<"mkdir", path>>>>))
  ELSE StepRes(f, TRUE, <<>>, <<>>)

\* Create._create
Create_create(f, dry, path) ==
  IF ~existsSync(f, path)
  THEN IF dry THEN StepRes(f, TRUE, <<>>, <<<<"mkdir", path>>>>)
       ELSE Let(mkdirSyncRecursive(f, path), LAMBDA r :
              StepRes(r.fs, r.ok, r.muts, <<<<"mkdir", path>>>>))
  ELSE StepRes(f, TRUE, <<>>, <<>>)

RECURSIVE Create_processPaths(_, _, _)
\* Create._processPaths on the array format
Create_processPaths(f, dry, paths) ==
  IF paths = <<>> THEN StepRes(f, TRUE, <<>>, <<>>)
  ELSE Let(Create_create(f, dry, resolve(Head(paths))), LAMBDA r :
         Then(r, Create_processPaths(r.fs, dry, Tail(paths))))

\* ----------------------------------------------------------- Clean plugin
\* Clean._inDirectory
Clean_inDirectory(path, directory) == IsPrefix(resolve(directory), resolve(path))

\* fs.readdirSync
readdirSync(f, p) ==
  Let(rpath(f, p), LAMBDA q :
    {x[Len(x)] : x \in {y \in DOMAIN f : Len(y) = Len(q) + 1 /\ IsPrefix(q, y)}})

RECURSIVE Clean_clean(_, _, _, _, _)
RECURSIVE Clean_items(_, _, _, _, _, _)
\* Clean._clean, the loop over the items of the directory
Clean_items(f, base, dry, target, items, o) ==
  IF items = {} THEN StepRes(f, TRUE, <<>>, <<>>)
  ELSE
    Let(CHOOSE x \in items : TRUE, LAMBDA item :
    Let(resolve(join(target, <<item>>)), LAMBDA path :
    Let(IF o.recursive /\ statIsDir(f, path)
        THEN Clean_clean(f, base, dry, path, o)
        ELSE StepRes(f, TRUE, <<>>, <<>>), LAMBDA sub :
    Let(IF lstatIsLink(sub.fs, path) /\ ~existsSync(sub.fs, path)
           /\ (Clean_inDirectory(path, baseDirectory(base, TRUE)) \/ o.force)
        THEN IF dry THEN StepRes(sub.fs, TRUE, <<>>, <<<<"remove", path>>>>)
             ELSE Let(unlinkSync(sub.fs, path), LAMBDA r :
                    StepRes(r.fs, TRUE, r.muts, <<<<"remove", path>>>>))
        ELSE StepRes(sub.fs, TRUE, <<>>, <<>>), LAMBDA here :
    Let(Clean_items(here.fs, base, dry, target, items \ {item}, o),
        LAMBDA rest :
      StepRes(rest.fs, TRUE, sub.muts \o here.muts \o rest.muts,
              sub.acts \o here.acts \o rest.acts))))))

\* Clean._clean
Clean_clean(f, base, dry, target, o) ==
  IF ~statIsDir(f, target) THEN StepRes(f, TRUE, <<>>, <<>>)
  ELSE Clean_items(f, base, dry, target, readdirSync(f, target), o)

RECURSIVE Clean_processClean(_, _, _, _, _)
\* Clean._processClean: each target is [target, opts]
Clean_processClean(f, base, dry, defs, targets) ==
  IF targets = <<>> THEN StepRes(f, TRUE, <<>>, <<>>)
  ELSE LET t == Head(targets)
           o == [force |-> Coalesce(t.opts, "force", DefTrue(defs, "force")),
                 recursive |-> Coalesce(t.opts, "recursive",
                                        DefTrue(defs, "recursive"))]
       IN  Let(Clean_clean(f, base, dry, t.target, o), LAMBDA r :
             Then(r, Clean_processClean(r.fs, base, dry, defs, Tail(targets))))

\* ----------------------------------------------------------- Shell plugin
RECURSIVE Shell_processCommands(_, _)
\* Shell._processCommands: the commands executed and the result
Shell_processCommands(dry, cmds) ==
  IF cmds = <<>> THEN [ok |-> TRUE, ran |-> {}]
  ELSE Let(Shell_processCommands(dry, Tail(cmds)), LAMBDA rest :
         IF dry THEN rest
         ELSE [ok |-> shellCommand(Head(cmds)) = 0 /\ rest.ok,
               ran |-> {Head(cmds)} \cup rest.ran])

\* ------------------------------------------------------- plugin classes
BuiltIns == <<"Clean", "Create", "Link", "Shell">>

\* canHandle of each class: the built-in handlers and two external ones
CanHandle(cls, action) ==
  CASE cls = "Clean"  -> action = "clean"
    [] cls = "Create" -> action = "create"
    [] cls = "Link"   -> action = "link"
    [] cls = "Shell"  -> action = "shell"
    [] cls = "Aux"    -> action = "aux"
    [] cls = "Tee"    -> action \in {"aux", "link"}
    [] OTHER          -> FALSE

\* the static supportsDryRun of each class (Plugin declares false)
SupportsDryRun(cls) == cls \in {"Clean", "Create", "Link", "Shell", "Tee"}

\* the plugin classes a module exports; the module "bad" cannot be loaded
Exports(path) ==
  CASE path = "aux" -> <<"Aux">>
    [] path = "tee" -> <<"Tee">>
    [] OTHER        -> <<>>

Loadable(path) == path # "bad"

\* loadPlugins([path], existingPlugins): the new classes, or a throw
loadPlugins(path, existingPlugins) ==
  IF ~Loadable(path) THEN [ok |-> FALSE, new |-> <<>>]
  ELSE [ok |-> TRUE,
        new |-> SelectSeq(Exports(path),
                  LAMBDA c : \A i \in 1..Len(existingPlugins) :
                                existingPlugins[i] # c)]

\* Context.plugins(): a copy of the list
Context_plugins(list) == list

\* a setDefaults that merges the new block into the old one
setDefaults_Merge(old, data) ==
  [k \in DOMAIN old \cup DOMAIN data |->
     IF k \notin DOMAIN data THEN old[k]
     ELSE IF k \notin DOMAIN old THEN data[k]
     ELSE data[k] @@ old[k]]

\* Context.setDefaults
\* a defaults directive that takes no effect
setDefaults_Ignored(old, data) == old

setDefaults(old, data) == data

\* result of Plugin.handle: "true", "false" or "throw"
HandleRes(f, res, ran) == [fs |-> f, res |-> res, ran |-> ran]

\* a handler that lets the failure of a step escape as an exception
BoolRes_Throws(b) == IF b THEN "true" ELSE "throw"

BoolRes(b) == IF b THEN "true" ELSE "false"

\* Plugin.handle of the instance of class cls
Handle_plugin(cls, action, data, f, base, dry, defs, outs) ==
  CASE cls = "Link" ->
         Let(Link_processLinks(f, base, dry, Coalesce(defs, "link", NoMap), data),
             LAMBDA r : HandleRes(r.fs, BoolRes(r.ok), {}))
    [] cls = "Create" ->
         Let(Create_processPaths(f, dry, data),
             LAMBDA r : HandleRes(r.fs, BoolRes(r.ok), {}))
    [] cls = "Clean" ->
         Let(Clean_processClean(f, base, dry, Coalesce(defs, "clean", NoMap), data),
             LAMBDA r : HandleRes(r.fs, BoolRes(r.ok), {}))
    [] cls = "Shell" ->
         Let(Shell_processCommands(dry, data),
             LAMBDA r : HandleRes(f, BoolRes(r.ok), r.ran))
    [] OTHER -> HandleRes(f, outs[cls], {})

\* ------------------------------------------------------ the modelled world
D  == <<"/", "d">>           \* the dotfiles directory
DA == <<"/", "d", "a">>      \* the declared target
DB == <<"/", "d", "b">>      \* another file of the dotfiles directory
S  == <<"/", "s">>           \* a symbolic link to the dotfiles directory
H  == <<"/", "h">>           \* the home directory
HL == <<"/", "h", "l">>      \* a link path
HP == <<"/", "h", "p">>      \* a directory that `create` may have to make
PL == <<"/", "h", "p", "l">> \* a link path below it
SA == <<"/", "s", "a">>      \* a link path reached through the link S


TargetKinds == {"none", "file"}
LinkPathKinds == {"none", "file", "hard", "dir", "toA", "toB", "relA"}

\* the filesystems a run can start from
MkFS(kA, kS, kL, kP) ==
  (D :> DirNode) @@ (H :> DirNode) @@ (DB :> FileNode(2))
  @@ (IF kA = "file" THEN (DA :> FileNode(1)) ELSE NoMap)
  @@ (IF kS THEN (S :> LinkNode(D)) ELSE NoMap)
  @@ (IF kP THEN (HP :> DirNode) ELSE NoMap)
  @@ (CASE kL = "none" -> NoMap
        [] kL = "file" -> (HL :> FileNode(3))
        [] kL = "hard" -> (HL :> FileNode(1))
        [] kL = "dir"  -> (HL :> DirNode) @@ (Append(HL, "c") :> FileNode(4))
        [] kL = "toA"  -> (HL :> LinkNode(DA))
        [] kL = "toB"  -> (HL :> LinkNode(DB))
        [] kL = "relA" -> (HL :> LinkNode(<<"..", "d", "a">>)))

InitFS ==
  { MkFS(kA, kS, kL, kP) :
      kA \in TargetKinds, kS \in BOOLEAN, kP \in BOOLEAN,
      kL \in LinkPathKinds } \ { MkFS("none", kS, "hard", kP) :
      kS \in BOOLEAN, kP \in BOOLEAN }

\* Dispatcher._setupContext accepts a base directory that exists and is a
\* directory
BaseDirs(f) == {b \in {D, S} : existsSync(f, resolve(b)) /\ statIsDir(f, resolve(b))}

LinkPaths == {HL, PL, SA}
TestCommands == {"", "true", "false"}

\* a link entry given in the extended format
Entry(lp, ty, fo, re, cr, rl, im, te) ==
  [link |-> lp, path |-> <<"a">>,
   opts |-> ("type" :> ty) @@ ("force" :> fo) @@ ("relink" :> re)
            @@ ("create" :> cr) @@ ("relative" :> rl)
            @@ ("ignore-missing" :> im)
            @@ (IF te = "" THEN NoMap ELSE ("if" :> te))]

\* `create` is enumerated where the parent of the link path can be missing
CreateChoices(lp) == IF lp = HL THEN {FALSE} ELSE BOOLEAN

LinkEntries ==
  UNION { { Entry(lp, ty, fo, re, cr, rl, im, te) :
              ty \in {"symlink", "hardlink"}, fo \in BOOLEAN, re \in BOOLEAN,
              cr \in CreateChoices(lp), rl \in BOOLEAN, im \in BOOLEAN,
              te \in TestCommands } : lp \in LinkPaths }

NoRun == [e |-> <<>>, dry |-> FALSE, ok |-> TRUE, muts |-> <<>>,
          acts |-> <<>>, pre |-> NoMap]

Undefined == [def |-> FALSE, v |-> {}]
Given(v) == [def |-> TRUE, v |-> v]

\* no call of defaults() or options() was made
NoRet == [kind |-> "", value |-> NoMap]

\* the objects of the Context are followed in SpecContext only
NoObjects ==
  /\ heap = <<>>
  /\ ctx = [defaults |-> 0, options |-> 0]
  /\ held = {}
  /\ ret = NoRet

NoStep == [action |-> "", filtered |-> FALSE, calls |-> <<>>, skipped |-> <<>>,
           resolved |-> <<>>, paths |-> <<>>, aborted |-> FALSE]

\* no iteration of dispatch is in progress
NoTask == [d |-> <<>>, i |-> 0, phase |-> "top", running |-> {},
           res |-> "", outs |-> <<>>, handled |-> FALSE, began |-> 0]

\* Level of messenger/level.ts
Level ==
  ("NOTSET" :> 0) @@ ("DEBUG" :> 10) @@ ("INFO" :> 15) @@ ("ACTION" :> 20)
  @@ ("WARNING" :> 30) @@ ("ERROR" :> 40)

\* the Messenger after `new Messenger()`: _level is the default of the
\* constructor; no setLevel and no log call yet
NewMessenger ==
  [level |-> Level["ACTION"], set |-> -1, news |-> 0,
   out |-> [level |-> -1, printed |-> FALSE]]

\* the state after `new Dispatcher(baseDirectory, options)`
Constructed ==
  /\ task = NoTask
  /\ msgr = NewMessenger
  /\ fs0 = fs
  /\ defaults = NoMap
  /\ plugins = BuiltIns
  /\ ctxPlugins = BuiltIns
  /\ success = TRUE
  /\ pc = "running"
  /\ result = TRUE
  /\ last = NoStep
  /\ defHist = <<>>
  /\ seen = {}
  /\ shellRan = {}
  /\ runs = 0
  /\ prev = NoRun
  /\ cur = NoRun

DispatchVars == <<exitOnFailure, only, skip, plugins, ctxPlugins, success, pc,
                  result, last, defHist, seen, shellRan>>

\* ------------------------------------------- the link engine on its own
InitLink ==
  /\ fs \in InitFS
  /\ baseDir \in BaseDirs(fs)
  /\ dryRun = FALSE
  /\ exitOnFailure = FALSE
  /\ only = Undefined
  /\ skip = Undefined
  /\ Constructed
  /\ NoObjects

\* Link.handle("link", {e.link: {path: e.path, ...e.opts}})
Handle(e, dry) ==
  \E r \in {Link_processLinks(fs, baseDir, dry,
                               Coalesce(defaults, "link", NoMap), <<e>>)} :
      /\ fs' = r.fs
      /\ dryRun' = dry
      /\ prev' = cur
      /\ cur' = [e |-> e, dry |-> dry, ok |-> r.ok, muts |-> r.muts,
                 acts |-> r.acts, pre |-> fs]
      /\ runs' = runs + 1
      /\ UNCHANGED <<fs0, baseDir, defaults>>
      /\ UNCHANGED DispatchVars
      /\ UNCHANGED <<CtxVars, StepVars>>

\* a first invocation of the tool with a link directive
LinkRun ==
  /\ runs = 0
  /\ \E e \in LinkEntries, dry \in BOOLEAN : Handle(e, dry)

\* the tool is invoked again, for real, with the same configuration
LinkRerun ==
  /\ runs > 0
  /\ runs < MaxRuns
  /\ Handle(cur.e, FALSE)

NextLink == LinkRun \/ LinkRerun

SpecLink == InitLink /\ [][NextLink]_vars

\* the filesystem f with another device mounted at the directory mp: every
\* node at or below mp is on the device d
Mounted(f, mp, d) ==
  [x \in DOMAIN f |-> IF IsPrefix(mp, x) THEN OnDevice(f[x], d) ELSE f[x]]

\* the filesystems where the home directory and the base directory are on
\* two devices; inode numbers are per device, so the file at the link path
\* can carry the inode number of the target
InitFSDevices ==
  { Mounted(MkFS(kA, FALSE, kL, kP), H, 1) :
      kA \in TargetKinds, kP \in BOOLEAN, kL \in {"none", "file", "hard"} }

InitDevices ==
  /\ fs \in InitFSDevices
  /\ baseDir \in BaseDirs(fs)
  /\ dryRun = FALSE
  /\ exitOnFailure = FALSE
  /\ only = Undefined
  /\ skip = Undefined
  /\ Constructed
  /\ NoObjects

SpecDevices == InitDevices /\ [][NextLink]_vars

\* the filesystems where a filesystem call of the engine fails: /h/p is a
\* dangling symbolic link (mkdir fails on it) or a regular file (nothing
\* can be created below it), or /h is on another device (link fails)
InitFSFaults ==
  { (HP :> n) @@ MkFS(kA, FALSE, kL, FALSE) :
      n \in {LinkNode(<<"/", "x">>), FileNode(5)},
      kA \in TargetKinds, kL \in {"none", "file"} }
  \cup { Mounted(MkFS("file", FALSE, "none", kP), H, 1) : kP \in BOOLEAN }

InitFaults ==
  /\ fs \in InitFSFaults
  /\ baseDir \in BaseDirs(fs)
  /\ dryRun = FALSE
  /\ exitOnFailure = FALSE
  /\ only = Undefined
  /\ skip = Undefined
  /\ Constructed
  /\ NoObjects

SpecFaults == InitFaults /\ [][NextLink]_vars

\* ----------------------------------------------------------------- Clean
X == <<"/", "x">>            \* a directory outside the home directory
HSUB == <<"/", "h", "sub">>  \* a real subdirectory of the home directory
HS == <<"/", "h", "s">>      \* a symbolic link to X in the home directory
GONE == <<"/", "gone">>      \* a location where nothing is

\* the home directory holds, as chosen, a broken link, a real subdirectory
\* with a broken link, and a symbolic link to the directory /x, which holds
\* a broken link of its own
MkCleanFS(kDead, kSub, kSym) ==
  (D :> DirNode) @@ (H :> DirNode) @@ (X :> DirNode)
  @@ (Append(X, "dead") :> LinkNode(GONE))
  @@ (IF kDead THEN (Append(H, "dead") :> LinkNode(GONE)) ELSE NoMap)
  @@ (IF kSub THEN (HSUB :> DirNode) @@ (Append(HSUB, "dead") :> LinkNode(GONE))
      ELSE NoMap)
  @@ (IF kSym THEN (HS :> LinkNode(X)) ELSE NoMap)

InitFSClean ==
  { MkCleanFS(kDead, kSub, kSym) :
      kDead \in BOOLEAN, kSub \in BOOLEAN, kSym \in BOOLEAN }

\* clean: {<target>: {force: ..., recursive: ...}}
CleanTargets ==
  { [target |-> t, opts |-> ("force" :> fo) @@ ("recursive" :> re)] :
      t \in {H, HSUB}, fo \in BOOLEAN, re \in BOOLEAN }

InitClean ==
  /\ fs \in InitFSClean
  /\ baseDir = D
  /\ dryRun = FALSE
  /\ exitOnFailure = FALSE
  /\ only = Undefined
  /\ skip = Undefined
  /\ Constructed
  /\ NoObjects

\* Clean.handle("clean", {t.target: t.opts})
CleanHandle(t, dry) ==
  \E r \in {Clean_processClean(fs, baseDir, dry,
                                Coalesce(defaults, "clean", NoMap), <<t>>)} :
      /\ fs' = r.fs
      /\ dryRun' = dry
      /\ prev' = cur
      /\ cur' = [e |-> t, dry |-> dry, ok |-> r.ok, muts |-> r.muts,
                 acts |-> r.acts, pre |-> fs]
      /\ runs' = runs + 1
      /\ UNCHANGED <<fs0, baseDir, defaults>>
      /\ UNCHANGED DispatchVars
      /\ UNCHANGED <<CtxVars, StepVars>>

\* an invocation of the tool with a clean directive
CleanRun ==
  /\ runs < MaxRuns
  /\ \E t \in CleanTargets, dry \in BOOLEAN : CleanHandle(t, dry)

NextClean == CleanRun

SpecClean == InitClean /\ [][NextClean]_vars

\* ------------------------------------------------------------ Dispatcher
\* the filesystems a dispatch starts from
InitFSDispatch ==
  { MkFS("file", FALSE, "toB", FALSE), MkFS("none", FALSE, "toA", FALSE) }

BareEntry == [link |-> HL, path |-> <<"a">>, opts |-> NoMap]
ForceEntry == [link |-> HL, path |-> <<"a">>, opts |-> ("force" :> TRUE)]
DeepEntry == [link |-> PL, path |-> <<"b">>, opts |-> ("create" :> TRUE)]

DefaultsPayloads ==
  { ("link" :> ("force" :> TRUE)), ("link" :> ("relink" :> TRUE)),
    ("shell" :> ("stdout" :> TRUE)) }

LinkDirectives ==
  { [action |-> "link", data |-> l] :
      l \in {<<BareEntry>>, <<ForceEntry, DeepEntry>>} }

\* the directives of the task list: [action, data]
Directives ==
  LinkDirectives
  \cup { [action |-> "create", data |-> <<HP>>] }
  \cup { [action |-> "clean", data |-> <<[target |-> H, opts |-> NoMap]>>] }
  \cup { [action |-> "shell", data |-> <<"true">>] }
  \cup { [action |-> "plugins", data |-> [array |-> TRUE, paths |-> ps]] :
           ps \in {<<"aux">>, <<"tee">>, <<"bad", "aux">>} }
  \cup { [action |-> "plugins", data |-> [array |-> FALSE, paths |-> <<>>]] }
  \cup { [action |-> "aux", data |-> <<>>], [action |-> "nop", data |-> <<>>] }

\* the directives of a task list that layers defaults
DefaultsDirectives ==
  { [action |-> "defaults", data |-> d] : d \in DefaultsPayloads }
  \cup LinkDirectives
  \cup { [action |-> "shell", data |-> <<"false">>] }
  \cup { [action |-> "plugins", data |-> [array |-> TRUE, paths |-> <<"tee">>]] }

ExternalClasses == {"Aux", "Tee"}
Outcomes == {"true", "false", "throw"}

\* what the external handlers invoked for a directive return: only the
\* handlers that claim the action are given a choice
OutcomesFor(action) ==
  { o \in [ExternalClasses -> Outcomes] :
      \A cls \in ExternalClasses : ~CanHandle(cls, action) => o[cls] = "true" }

\* the command lines: [dryRun, exitOnFailure, only, skip]
CommandLines ==
  { [dry |-> FALSE, exit |-> FALSE, only |-> Undefined, skip |-> Undefined],
    [dry |-> TRUE,  exit |-> FALSE, only |-> Undefined, skip |-> Undefined],
    [dry |-> FALSE, exit |-> TRUE,  only |-> Undefined, skip |-> Undefined],
    [dry |-> TRUE,  exit |-> TRUE,  only |-> Undefined, skip |-> Undefined],
    [dry |-> FALSE, exit |-> FALSE, only |-> Given({"link", "aux"}),
     skip |-> Undefined],
    [dry |-> FALSE, exit |-> FALSE, only |-> Undefined,
     skip |-> Given({"link", "defaults"})] }

Init ==
  /\ fs \in InitFSDispatch
  /\ baseDir = D
  /\ \E cl \in CommandLines :
       /\ dryRun = cl.dry
       /\ exitOnFailure = cl.exit
       /\ only = cl.only
       /\ skip = cl.skip
  /\ Constructed
  /\ NoObjects

\* a loading loop that gives up at the first module that fails to load
RECURSIVE LoadAll_StopAtFailure(_, _, _)
LoadAll_StopAtFailure(paths, regs, ctxList) ==
  IF paths = <<>> THEN [regs |-> regs, ok |-> TRUE]
  ELSE Let(loadPlugins(Head(paths), Context_plugins(ctxList)), LAMBDA r :
         IF ~r.ok THEN [regs |-> regs, ok |-> FALSE]
         ELSE LoadAll_StopAtFailure(Tail(paths), regs \o r.new, ctxList))

\* the `plugins` branch of Dispatcher.dispatch: the loop over the module paths
RECURSIVE LoadAll(_, _, _)
LoadAll(paths, regs, ctxList) ==
  IF paths = <<>> THEN [regs |-> regs, ok |-> TRUE]
  ELSE Let(loadPlugins(Head(paths), Context_plugins(ctxList)), LAMBDA r :
       Let(LoadAll(Tail(paths), regs \o r.new, ctxList), LAMBDA rest :
         [regs |-> rest.regs, ok |-> r.ok /\ rest.ok]))

\* a dispatcher without the dry-run gate
DryRunSkips_Never(dry, cls) == FALSE

\* Dispatcher.dispatch: `this._dryRun && !PluginClass.supportsDryRun`
DryRunSkips(dry, cls) == dry /\ ~SupportsDryRun(cls)

\* a handler loop that stops at the first handler claiming the directive
RECURSIVE RunHandlers_FirstMatch(_, _, _)
RunHandlers_FirstMatch(i, c, st) ==
  IF i > Len(c.regs) \/ st.aborted THEN st
  ELSE IF ~CanHandle(c.regs[i], c.action)
  THEN RunHandlers_FirstMatch(i + 1, c, st)
  ELSE IF DryRunSkips(c.dry, c.regs[i])
  THEN [st EXCEPT !.handled = TRUE, !.skipped = Append(@, i)]
  ELSE
    Let(Handle_plugin(c.regs[i], c.action, c.data, st.fs, c.base, c.dry,
                      c.defs, c.outs), LAMBDA r :
    Let([st EXCEPT !.fs = r.fs,
                   !.calls = Append(@, [idx |-> i, res |-> r.res]),
                   !.ran = @ \cup r.ran], LAMBDA called :
      IF r.res = "throw"
      THEN IF c.exit THEN [called EXCEPT !.aborted = TRUE]
           ELSE [called EXCEPT !.success = FALSE]
      ELSE IF r.res = "false" /\ c.exit
           THEN [called EXCEPT !.aborted = TRUE]
           ELSE [called EXCEPT !.success = (r.res = "true") /\ @,
                               !.handled = TRUE]))

\* a loop that ignores fail-fast: a failing call never ends the dispatch
CallOutcome_NoFailFast(res, exit) == IF res = "throw" THEN "fail" ELSE "count"

\* a loop without the catch branch: an exception always ends the dispatch
CallOutcome_ThrowEscapes(res, exit) ==
  IF res = "throw" \/ (res = "false" /\ exit) THEN "abort" ELSE "count"

\* what the handler loop does with the outcome of one call of handle:
\* "abort" is `return false`, "fail" is the catch branch (`success = false`),
\* "count" is `success = localSuccess && success; handled = true`
CallOutcome(res, exit) ==
  IF res = "throw" THEN (IF exit THEN "abort" ELSE "fail")
  ELSE IF res = "false" /\ exit THEN "abort"
  ELSE "count"

\* the loop `for (const plugin of this._plugins)` of Dispatcher.dispatch,
\* from the i-th instance on; c is the directive with its context, st the
\* locals of dispatch
RECURSIVE RunHandlers(_, _, _)
RunHandlers(i, c, st) ==
  IF i > Len(c.regs) \/ st.aborted THEN st
  ELSE IF ~CanHandle(c.regs[i], c.action) THEN RunHandlers(i + 1, c, st)
  ELSE IF DryRunSkips(c.dry, c.regs[i])
  THEN RunHandlers(i + 1, c, [st EXCEPT !.handled = TRUE,
                                        !.skipped = Append(@, i)])
  ELSE
    Let(Handle_plugin(c.regs[i], c.action, c.data, st.fs, c.base, c.dry,
                      c.defs, c.outs), LAMBDA r :
    Let([st EXCEPT !.fs = r.fs,
                   !.calls = Append(@, [idx |-> i, res |-> r.res]),
                   !.ran = @ \cup r.ran], LAMBDA called :
    Let(CallOutcome(r.res, c.exit), LAMBDA out :
      IF out = "abort" THEN [called EXCEPT !.aborted = TRUE]
      ELSE IF out = "fail"
      THEN RunHandlers(i + 1, c, [called EXCEPT !.success = FALSE])
      ELSE RunHandlers(i + 1, c,
             [called EXCEPT !.success = (r.res = "true") /\ @,
                            !.handled = TRUE]))))

\* canHandle(action) is false for every registered instance
Unclaimed(regs, action) == \A i \in 1..Len(regs) : ~CanHandle(regs[i], action)

\* the kinds of failure among the calls of one directive
CallFailures(calls) ==
  {"handlerFalse" : i \in {j \in 1..Len(calls) : calls[j].res = "false"}}
  \cup {"handlerThrew" : i \in {j \in 1..Len(calls) : calls[j].res = "throw"}}

Push2(h, x) == IF Len(h) < 2 THEN Append(h, x) ELSE <<h[2], x>>

\* a filter that forgets --only
FilteredOut_OnlyIgnored(action, o, s) ==
  (s.def /\ action \in s.v) /\ action # "defaults"

\* Dispatcher.dispatch: the directive is skipped by --only / --except
FilteredOut(action, o, s) ==
  /\ (o.def /\ action \notin o.v) \/ (s.def /\ action \in s.v)
  /\ action # "defaults"

\* Dispatcher.dispatch: one iteration of the loop over the directives
DispatchDirective(d, outs) ==
  LET action == d.action
      isDefaults == action = "defaults"
      isPlugins == action = "plugins"
  IN
  IF FilteredOut(action, only, skip)
  THEN /\ last' = [NoStep EXCEPT !.action = action, !.filtered = TRUE]
       /\ UNCHANGED <<fs, defaults, plugins, success, pc, result, defHist,
                      seen, shellRan>>
  ELSE
    \E defs1 \in {IF isDefaults THEN setDefaults(defaults, d.data)
                  ELSE defaults} :
    \E loaded \in {IF isPlugins /\ d.data.array
                   THEN LoadAll(d.data.paths, plugins, ctxPlugins)
                   ELSE [regs |-> plugins, ok |-> ~isPlugins]} :
    \E st0 \in {[fs |-> fs, success |-> success /\ (isPlugins => loaded.ok),
                 handled |-> isDefaults \/ isPlugins, calls |-> <<>>,
                 skipped |-> <<>>, aborted |-> FALSE, ran |-> {}]} :
    \E st \in {IF isPlugins /\ d.data.array /\ ~st0.success /\ exitOnFailure
               THEN [st0 EXCEPT !.aborted = TRUE]
               ELSE RunHandlers(1,
                      [regs |-> loaded.regs, action |-> action,
                       data |-> d.data, base |-> baseDir, dry |-> dryRun,
                       exit |-> exitOnFailure, defs |-> defs1, outs |-> outs],
                      st0)} :
      LET notHandled == ~st.aborted /\ ~st.handled
          aborted == st.aborted \/ (notHandled /\ exitOnFailure)
      IN
      /\ Len(loaded.regs) <= MaxPlugins
      /\ fs' = st.fs
      /\ defaults' = defs1
      /\ defHist' = IF isDefaults THEN Push2(defHist, d.data) ELSE defHist
      /\ plugins' = loaded.regs
      /\ success' = (st.success /\ ~notHandled)
      /\ shellRan' = shellRan \cup st.ran
      /\ seen' = seen
           \cup (IF CallFailures(st.calls) # {}
                    \/ (isPlugins /\ d.data.array /\ ~loaded.ok)
                 THEN {"failed"} ELSE {})
           \cup (IF \E i \in 1..Len(st.calls) : st.calls[i].res = "throw"
                 THEN {"threw"} ELSE {})
           \cup (IF isPlugins /\ d.data.array /\ ~loaded.ok
                 THEN {"loadFailed"} ELSE {})
           \cup (IF isPlugins /\ ~d.data.array THEN {"malformed"} ELSE {})
           \cup (IF ~isDefaults /\ ~isPlugins
                    /\ Unclaimed(loaded.regs, action)
                 THEN {"unclaimed"} ELSE {})
      /\ last' = [action |-> action, filtered |-> FALSE,
                  calls |-> st.calls, skipped |-> st.skipped,
                  resolved |-> IF action = "link"
                               THEN [i \in 1..Len(d.data) |->
                                      [opts |-> d.data[i].opts,
                                       o |-> ResolveOptions(
                                               Coalesce(defs1, "link", NoMap),
                                               d.data[i].opts)]]
                               ELSE <<>>,
                  paths |-> IF isPlugins THEN d.data.paths ELSE <<>>,
                  aborted |-> aborted]
      /\ pc' = IF aborted THEN "done" ELSE pc
      /\ result' = IF aborted THEN FALSE ELSE result

\* a directive of the task list is processed
Dispatch ==
  /\ pc = "running"
  /\ \E d \in Directives : \E outs \in OutcomesFor(d.action) :
       DispatchDirective(d, outs)
  /\ UNCHANGED <<fs0, baseDir, dryRun, exitOnFailure, only, skip, ctxPlugins,
                 runs, prev, cur>>
  /\ UNCHANGED <<CtxVars, StepVars>>

\* an invalid task that is logged but does not fail the run
InvalidTask_Ignored ==
  /\ pc = "running"
  /\ seen' = seen \cup {"malformed"}
  /\ last' = [NoStep EXCEPT !.action = "invalid"]
  /\ UNCHANGED <<fs, fs0, baseDir, defaults, dryRun, exitOnFailure, only, skip,
                 plugins, ctxPlugins, success, pc, result, defHist, shellRan,
                 runs, prev, cur>>
  /\ UNCHANGED <<CtxVars, StepVars>>

\* a task that is not a mapping: "Invalid task format"
InvalidTask ==
  /\ pc = "running"
  /\ success' = FALSE
  /\ seen' = seen \cup {"malformed"}
  /\ last' = [NoStep EXCEPT !.action = "invalid"]
  /\ UNCHANGED <<fs, fs0, baseDir, defaults, dryRun, exitOnFailure, only, skip,
                 plugins, ctxPlugins, pc, result, defHist, shellRan, runs,
                 prev, cur>>
  /\ UNCHANGED <<CtxVars, StepVars>>

\* the task list is exhausted: `return success`
Return ==
  /\ pc = "running"
  /\ pc' = "done"
  /\ result' = success
  /\ UNCHANGED <<fs, fs0, baseDir, defaults, dryRun, exitOnFailure, only, skip,
                 plugins, ctxPlugins, success, last, defHist, seen, shellRan,
                 runs, prev, cur>>
  /\ UNCHANGED <<CtxVars, StepVars>>

Next == Dispatch \/ InvalidTask \/ Return

Spec == Init /\ [][Next]_vars

\* the task list is finite: the loop over it ends and dispatch returns
SpecLive == Spec /\ WF_vars(Return)

\* --------------------------------------- task lists that layer defaults
\* the --only / --except options of the command line: [only, skip]
DefaultsFilters ==
  { [only |-> Undefined, skip |-> Undefined],
    [only |-> Undefined, skip |-> Given({"link", "defaults"})],
    [only |-> Undefined, skip |-> Given({"shell", "plugins"})],
    [only |-> Given({"link"}), skip |-> Undefined] }

InitDefaults ==
  /\ fs \in InitFSDispatch
  /\ baseDir = D
  /\ dryRun \in BOOLEAN
  /\ exitOnFailure = FALSE
  /\ \E fl \in DefaultsFilters : only = fl.only /\ skip = fl.skip
  /\ Constructed
  /\ NoObjects

DispatchDefaults ==
  /\ pc = "running"
  /\ \E d \in DefaultsDirectives : \E outs \in OutcomesFor(d.action) :
       DispatchDirective(d, outs)
  /\ UNCHANGED <<fs0, baseDir, dryRun, exitOnFailure, only, skip, ctxPlugins,
                 runs, prev, cur>>
  /\ UNCHANGED <<CtxVars, StepVars>>

NextDefaults == DispatchDefaults \/ Return

SpecDefaults == InitDefaults /\ [][NextDefaults]_vars

\* ------------------------------------------------ glob entries on their own
CONFIG == <<"/", "d", "config">>

\* the dotfiles directory holds config/ with a public file and, as chosen,
\* a file `private` and a directory `private.d` with a file
MkGlobFS(kPriv, kPrivD, kS, kNfig) ==
  (D :> DirNode) @@ (H :> DirNode) @@ (CONFIG :> DirNode)
  @@ (Append(CONFIG, "public") :> FileNode(1))
  @@ (IF kPriv THEN (Append(CONFIG, "private") :> FileNode(2)) ELSE NoMap)
  @@ (IF kPrivD THEN (Append(CONFIG, "private.d") :> DirNode)
                     @@ (CONFIG \o <<"private.d", "key">> :> FileNode(3))
      ELSE NoMap)
  @@ (IF kS THEN (S :> LinkNode(D)) ELSE NoMap)
  @@ (IF kNfig THEN (Append(H, "nfig") :> DirNode) ELSE NoMap)

InitGlobFS ==
  { MkGlobFS(kPriv, kPrivD, kS, kNfig) :
      kPriv \in BOOLEAN, kPrivD \in BOOLEAN, kS \in BOOLEAN,
      kNfig \in BOOLEAN }

GlobPatterns ==
  { <<"config", "*">>, <<"config", "**">>, <<"config", "private*">> }

ExcludeLists ==
  { <<>>, << <<"config", "private*">> >>, << <<"**", "private*">> >>,
    << <<"config", "**">> >>,
    << <<"config", "private*">>, <<"config", "public">> >> }

\* link: {/h: {path: <pattern>, glob: true, exclude: [...], ...}}
GlobEntries ==
  { [link |-> H, path |-> pat,
     opts |-> ("glob" :> TRUE) @@ ("exclude" :> ex) @@ ("create" :> cr)
              @@ ("force" :> fo) @@ ("prefix" :> px)] :
      pat \in GlobPatterns, ex \in ExcludeLists, cr \in BOOLEAN,
      fo \in BOOLEAN, px \in {"", "dot_"} }

InitGlob ==
  /\ fs \in InitGlobFS
  /\ baseDir \in BaseDirs(fs)
  /\ dryRun = FALSE
  /\ exitOnFailure = FALSE
  /\ only = Undefined
  /\ skip = Undefined
  /\ Constructed
  /\ NoObjects

\* the invocation of the tool with a link directive that has a glob entry
GlobRun ==
  /\ runs = 0
  /\ \E e \in GlobEntries, dry \in BOOLEAN : Handle(e, dry)

NextGlob == GlobRun

SpecGlob == InitGlob /\ [][NextGlob]_vars

\* the filesystems where config/ holds a dotfile
InitFSDotfiles ==
  { (Append(CONFIG, ".hidden") :> FileNode(6))
      @@ MkGlobFS(kPriv, FALSE, FALSE, kNfig) :
      kPriv \in BOOLEAN, kNfig \in BOOLEAN }

InitDotfiles ==
  /\ fs \in InitFSDotfiles
  /\ baseDir \in BaseDirs(fs)
  /\ dryRun = FALSE
  /\ exitOnFailure = FALSE
  /\ only = Undefined
  /\ skip = Undefined
  /\ Constructed
  /\ NoObjects

SpecDotfiles == InitDotfiles /\ [][NextGlob]_vars

\* -------------------------------------------- the Context and its objects
\* An object is a mapping from keys to values; a value is [leaf |-> x] or a
\* reference [ref |-> a] to the object at address a of the heap.  A tree is
\* a value with the objects in place of the references: [leaf |-> x] or
\* [obj |-> mapping from keys to trees].
MaxObjects == 8
MaxSnapshots == 2

\* the serialised form of a value: the tree below it
RECURSIVE StructuredSerialize(_, _)
StructuredSerialize(h, v) ==
  IF "leaf" \in DOMAIN v THEN v
  ELSE [obj |-> [k \in DOMAIN h[v.ref] |-> StructuredSerialize(h, h[v.ref][k])]]

\* the objects of a tree are allocated afresh; the result is the new heap
\* and the value that stands for the tree
RECURSIVE StructuredDeserialize(_, _)
RECURSIVE DeserializeFields(_, _, _, _)
StructuredDeserialize(h, t) ==
  IF "leaf" \in DOMAIN t THEN [heap |-> h, val |-> t]
  ELSE [heap |-> DeserializeFields(Append(h, NoMap), Len(h) + 1, t.obj,
                                   DOMAIN t.obj),
        val |-> [ref |-> Len(h) + 1]]

DeserializeFields(h, a, m, keys) ==
  IF keys = {} THEN h
  ELSE Let(CHOOSE k \in keys : TRUE, LAMBDA k :
       Let(StructuredDeserialize(h, m[k]), LAMBDA r :
         DeserializeFields([r.heap EXCEPT ![a] = (k :> r.val) @@ @], a, m,
                           keys \ {k})))

\* a copy of the object itself that shares the objects it refers to
structuredClone_Shallow(h, v) ==
  [heap |-> Append(h, h[v.ref]), val |-> [ref |-> Len(h) + 1]]

\* structuredClone(value): serialise, then deserialise into new objects
structuredClone(h, v) == StructuredDeserialize(h, StructuredSerialize(h, v))

\* the number of objects of a tree
RECURSIVE TreeSize(_)
RECURSIVE TreeSizeOver(_, _)
TreeSize(t) ==
  IF "leaf" \in DOMAIN t THEN 0 ELSE 1 + TreeSizeOver(t.obj, DOMAIN t.obj)

TreeSizeOver(m, keys) ==
  IF keys = {} THEN 0
  ELSE Let(CHOOSE k \in keys : TRUE, LAMBDA k :
         TreeSize(m[k]) + TreeSizeOver(m, keys \ {k}))

\* the tree of a mapping of mappings, such as the payload of a defaults
\* directive
TreeOfDefaults(m) ==
  [obj |-> [d \in DOMAIN m |->
              [obj |-> [k \in DOMAIN m[d] |-> [leaf |-> m[d][k]]]]]]

\* the tree of the CLIOptions object; an array of names is kept as the
\* object of its elements
TreeOfOptions(dry, exit, o, s) ==
  [obj |-> ("dryRun" :> [leaf |-> dry]) @@ ("exitOnFailure" :> [leaf |-> exit])
           @@ (IF o.def THEN ("only" :> [obj |-> [n \in o.v |-> [leaf |-> TRUE]]])
               ELSE NoMap)
           @@ (IF s.def THEN ("skip" :> [obj |-> [n \in s.v |-> [leaf |-> TRUE]]])
               ELSE NoMap)]

\* the objects reachable from a value
RECURSIVE Reachable(_, _)
Reachable(h, v) ==
  IF "leaf" \in DOMAIN v THEN {}
  ELSE {v.ref} \cup UNION { Reachable(h, h[v.ref][k]) : k \in DOMAIN h[v.ref] }

ContextFilters ==
  { [only |-> Undefined, skip |-> Undefined],
    [only |-> Given({"link"}), skip |-> Undefined] }

\* new Context(baseDirectory, options): `this._defaults = {}` and
\* `this._options = options`, the object the command line was parsed into
InitContext ==
  /\ fs = MkFS("file", FALSE, "none", FALSE)
  /\ baseDir = D
  /\ dryRun \in BOOLEAN
  /\ exitOnFailure = FALSE
  /\ \E fl \in ContextFilters : only = fl.only /\ skip = fl.skip
  /\ Constructed
  /\ \E r \in {StructuredDeserialize(<<NoMap>>,
                    TreeOfOptions(dryRun, exitOnFailure, only, skip))} :
       /\ heap = r.heap
       /\ ctx = [defaults |-> [ref |-> 1], options |-> r.val]
  /\ held = {}
  /\ ret = NoRet

ContextFrame ==
  UNCHANGED <<fs, fs0, baseDir, dryRun, exitOnFailure, only, skip, plugins,
              ctxPlugins, success, pc, result, last, defHist, seen, shellRan,
              runs, prev, cur, task, msgr>>

\* Context.setDefaults(data), called by the dispatcher with the payload of a
\* defaults directive: the reference is stored
Context_setDefaults ==
  /\ \E data \in DefaultsPayloads :
       /\ Len(heap) + TreeSize(TreeOfDefaults(data)) <= MaxObjects
       /\ \E r \in {StructuredDeserialize(heap, TreeOfDefaults(data))} :
            /\ heap' = r.heap
            /\ ctx' = [ctx EXCEPT !.defaults = r.val]
       /\ defaults' = setDefaults(defaults, data)
  /\ ret' = NoRet
  /\ UNCHANGED held
  /\ ContextFrame

\* a handler calls Context.defaults() and keeps the value
Context_defaults ==
  /\ Cardinality(held) < MaxSnapshots
  /\ Len(heap) + TreeSize(StructuredSerialize(heap, ctx.defaults)) <= MaxObjects
  /\ \E r \in {structuredClone(heap, ctx.defaults)} :
       /\ heap' = r.heap
       /\ held' = held \cup {r.val}
       /\ ret' = [kind |-> "defaults",
                  value |-> StructuredSerialize(r.heap, r.val)]
  /\ UNCHANGED <<ctx, defaults>>
  /\ ContextFrame

\* a handler calls Context.options() and keeps the value
Context_options ==
  /\ Cardinality(held) < MaxSnapshots
  /\ Len(heap) + TreeSize(StructuredSerialize(heap, ctx.options)) <= MaxObjects
  /\ \E r \in {structuredClone(heap, ctx.options)} :
       /\ heap' = r.heap
       /\ held' = held \cup {r.val}
       /\ ret' = [kind |-> "options",
                  value |-> StructuredSerialize(r.heap, r.val)]
  /\ UNCHANGED <<ctx, defaults>>
  /\ ContextFrame

\* the keys a handler writes, besides those an object has
NewKeys == {"force"}

\* a handler mutates a value it was returned: it sets a property of one of
\* its objects
MutateSnapshot ==
  /\ \E v \in held : \E a \in Reachable(heap, v) :
       \E k \in DOMAIN heap[a] \cup NewKeys, x \in BOOLEAN :
         heap' = [heap EXCEPT ![a] = (k :> [leaf |-> x]) @@ @]
  /\ ret' = NoRet
  /\ UNCHANGED <<ctx, held, defaults>>
  /\ ContextFrame

NextContext ==
  Context_setDefaults \/ Context_defaults \/ Context_options \/ MutateSnapshot

SpecContext == InitContext /\ [][NextContext]_vars

\* ------------------------------------------- option resolution on its own
\* the names of the link options and the values a configuration gives them;
\* canonicalize-path is the legacy spelling of canonicalize
OptionValues(k) ==
  CASE k = "type"    -> {"symlink", "hardlink"}
    [] k = "prefix"  -> {"", "dot_"}
    [] k = "if"      -> {"true", "false"}
    [] k = "exclude" -> {<<>>, <<<<"private*">>>>}
    [] OTHER         -> BOOLEAN

OptionNames ==
  {"type", "force", "relink", "create", "relative", "canonicalize",
   "canonicalize-path", "glob", "prefix", "if", "ignore-missing", "exclude"}

\* a block that sets every option: the first or the second value of each
FullBlock(first) ==
  [k \in OptionNames |->
     CASE k = "type"    -> IF first THEN "symlink" ELSE "hardlink"
       [] k = "prefix"  -> IF first THEN "" ELSE "dot_"
       [] k = "if"      -> IF first THEN "true" ELSE "false"
       [] k = "exclude" -> IF first THEN <<>> ELSE <<<<"private*">>>>
       [] OTHER         -> first]

\* the option blocks of an entry or of the link defaults: none, one option,
\* or all of them
OptionBlocks ==
  {NoMap, FullBlock(TRUE), FullBlock(FALSE)}
  \cup UNION { { (k :> v) : v \in OptionValues(k) } : k \in OptionNames }

InitOptions ==
  /\ fs \in InitFSDispatch
  /\ baseDir = D
  /\ dryRun = FALSE
  /\ exitOnFailure = FALSE
  /\ only = Undefined
  /\ skip = Undefined
  /\ Constructed
  /\ NoObjects

\* a defaults directive with a link block
SetLinkDefaults ==
  /\ \E b \in OptionBlocks : defaults' = setDefaults(defaults, ("link" :> b))
  /\ last' = [NoStep EXCEPT !.action = "defaults"]
  /\ UNCHANGED <<fs, fs0, baseDir, dryRun, exitOnFailure, only, skip, plugins,
                 ctxPlugins, success, pc, result, defHist, seen,
                 shellRan, runs, prev, cur>>
  /\ UNCHANGED <<CtxVars, StepVars>>

\* Link._processLinks resolves the options of an entry
Resolve ==
  /\ \E opts \in OptionBlocks :
       last' = [NoStep EXCEPT
                  !.action = "link",
                  !.resolved = <<[opts |-> opts,
                                  o |-> ResolveOptions(
                                          Coalesce(defaults, "link", NoMap),
                                          opts)]>>]
  /\ UNCHANGED <<fs, fs0, baseDir, defaults, dryRun, exitOnFailure, only, skip,
                 plugins, ctxPlugins, success, pc, result, defHist, seen,
                 shellRan, runs, prev, cur>>
  /\ UNCHANGED <<CtxVars, StepVars>>

NextOptions == SetLinkDefaults \/ Resolve

SpecOptions == InitOptions /\ [][NextOptions]_vars

\* ------------------------------------- the handler loop, call by call
\* the directives of a task list whose handlers are followed call by call
AsyncDirectives ==
  { [action |-> "defaults", data |-> ("link" :> ("force" :> TRUE))],
    [action |-> "link", data |-> <<BareEntry>>],
    [action |-> "create", data |-> <<HP>>],
    [action |-> "plugins", data |-> [array |-> TRUE, paths |-> <<"aux">>]],
    [action |-> "plugins", data |-> [array |-> TRUE, paths |-> <<"bad">>]],
    [action |-> "aux", data |-> <<>>] }

InitAsync ==
  /\ fs \in InitFSDispatch
  /\ baseDir = D
  /\ dryRun \in BOOLEAN
  /\ exitOnFailure \in BOOLEAN
  /\ only = Undefined
  /\ skip = Undefined
  /\ Constructed
  /\ NoObjects

AsyncFrame ==
  /\ UNCHANGED <<fs0, baseDir, dryRun, exitOnFailure, only, skip, ctxPlugins,
                 last, defHist, seen, shellRan, runs, prev, cur, msgr>>
  /\ UNCHANGED CtxVars

\* a dispatch that goes on while the promise of the call is pending
Awaited_Never(t) == TRUE

\* `await plugin.handle(action, data)`: dispatch goes on once the promise of
\* the call it made is settled
Awaited(t) == t.i \notin t.running

\* localSuccess: the value of the settled promise; a pending promise is a
\* truthy object
LocalSuccess(t) == IF t.i \in t.running THEN "true" ELSE t.res

\* the head of an iteration of the loop over the directives: the filter, the
\* `defaults` branch and the `plugins` branch
AsyncBegin ==
  /\ pc = "running"
  /\ task.phase = "top"
  /\ task.began < MaxDirectives
  /\ \E d \in AsyncDirectives : \E outs \in OutcomesFor(d.action) :
     \E loaded \in {IF d.action = "plugins"
                    THEN LoadAll(d.data.paths, plugins, ctxPlugins)
                    ELSE [regs |-> plugins, ok |-> TRUE]} :
       IF FilteredOut(d.action, only, skip)
       THEN /\ task' = [task EXCEPT !.began = @ + 1]
            /\ UNCHANGED <<fs, defaults, plugins, success, pc, result>>
       ELSE
         /\ Len(loaded.regs) <= MaxPlugins
         /\ defaults' = IF d.action = "defaults"
                         THEN setDefaults(defaults, d.data) ELSE defaults
         /\ plugins' = loaded.regs
         /\ success' = (success /\ loaded.ok)
         /\ IF ~loaded.ok /\ exitOnFailure
            THEN /\ pc' = "done"
                 /\ result' = FALSE
                 /\ task' = [task EXCEPT !.began = @ + 1]
            ELSE /\ task' = [task EXCEPT !.d = d, !.i = 1, !.phase = "loop",
                                         !.outs = outs, !.began = @ + 1,
                                         !.handled = d.action \in
                                                       {"defaults", "plugins"}]
                 /\ UNCHANGED <<pc, result>>
         /\ UNCHANGED fs
  /\ AsyncFrame

\* the loop over the registered instances: canHandle, the dry-run gate, and
\* the call of handle, which starts the handler
AsyncStep ==
  /\ pc = "running"
  /\ task.phase = "loop"
  /\ task.i <= Len(plugins)
  /\ IF ~CanHandle(plugins[task.i], task.d.action)
     THEN task' = [task EXCEPT !.i = @ + 1]
     ELSE IF DryRunSkips(dryRun, plugins[task.i])
     THEN task' = [task EXCEPT !.i = @ + 1, !.handled = TRUE]
     ELSE task' = [task EXCEPT !.phase = "called",
                               !.running = @ \cup {task.i}]
  /\ UNCHANGED <<fs, defaults, plugins, success, pc, result>>
  /\ AsyncFrame

\* a handler that was called runs to its end: its promise is settled
AsyncComplete ==
  /\ pc = "running"
  /\ \E j \in task.running :
     \E r \in {Handle_plugin(plugins[j], task.d.action, task.d.data, fs,
                              baseDir, dryRun, defaults, task.outs)} :
       /\ fs' = r.fs
       /\ task' = [task EXCEPT !.running = @ \ {j}, !.res = r.res]
  /\ UNCHANGED <<defaults, plugins, success, pc, result>>
  /\ AsyncFrame

\* dispatch goes on after `await plugin.handle(...)`
AsyncResume ==
  /\ pc = "running"
  /\ task.phase = "called"
  /\ Awaited(task)
  /\ \E out \in {CallOutcome(LocalSuccess(task), exitOnFailure)} :
       IF out = "abort"
       THEN /\ pc' = "done"
            /\ result' = FALSE
            /\ task' = [task EXCEPT !.phase = "top", !.d = <<>>]
            /\ UNCHANGED success
       ELSE /\ success' = IF out = "fail" THEN FALSE
                          ELSE (LocalSuccess(task) = "true") /\ success
            /\ task' = [task EXCEPT !.phase = "loop", !.i = @ + 1,
                                    !.handled = @ \/ out = "count"]
            /\ UNCHANGED <<pc, result>>
  /\ UNCHANGED <<fs, defaults, plugins>>
  /\ AsyncFrame

\* the end of the iteration: `if (!handled)`
AsyncEnd ==
  /\ pc = "running"
  /\ task.phase = "loop"
  /\ task.i > Len(plugins)
  /\ success' = (success /\ task.handled)
  /\ IF ~task.handled /\ exitOnFailure
     THEN pc' = "done" /\ result' = FALSE
     ELSE UNCHANGED <<pc, result>>
  /\ task' = [task EXCEPT !.phase = "top", !.d = <<>>]
  /\ UNCHANGED <<fs, defaults, plugins>>
  /\ AsyncFrame

\* the task list is exhausted: `return success`
AsyncReturn ==
  /\ pc = "running"
  /\ task.phase = "top"
  /\ pc' = "done"
  /\ result' = success
  /\ UNCHANGED <<fs, defaults, plugins, success, task>>
  /\ AsyncFrame

NextAsync ==
  AsyncBegin \/ AsyncStep \/ AsyncComplete \/ AsyncResume \/ AsyncEnd
  \/ AsyncReturn

SpecAsync == InitAsync /\ [][NextAsync]_vars

\* -------------------------------------------------------------- Messenger
\* the levels of the calls the model makes
LogLevels ==
  {Level["DEBUG"], Level["INFO"], Level["ACTION"], Level["WARNING"],
   Level["ERROR"]}

\* `new Messenger(level)` once the singleton exists: the constructor of
\* SingletonBase returns the stored instance, which becomes `this` of the
\* constructor of Messenger, and the constructor goes on with its
\* assignment `this._level = level`
Messenger_constructor(m, level) ==
  [m EXCEPT !.level = level, !.news = @ + 1]

\* Messenger.setLevel
Messenger_setLevel(m, level) == [m EXCEPT !.level = level, !.set = level,
                                          !.news = 0]

\* Messenger.log: the message is printed iff level >= this._level
Messenger_log(m, level) ==
  [m EXCEPT !.out = [level |-> level, printed |-> level >= m.level]]

\* the state after `const log = new Messenger()` of main
InitMessenger ==
  /\ fs = MkFS("file", FALSE, "none", FALSE)
  /\ baseDir = D
  /\ dryRun = FALSE
  /\ exitOnFailure = FALSE
  /\ only = Undefined
  /\ skip = Undefined
  /\ Constructed
  /\ NoObjects

MessengerFrame ==
  /\ UNCHANGED <<fs, fs0, baseDir, defaults, dryRun, exitOnFailure, only, skip,
                 plugins, ctxPlugins, success, pc, result, last, defHist, seen,
                 shellRan, runs, prev, cur, task>>
  /\ UNCHANGED CtxVars

\* `new Messenger()` in the constructor of the Dispatcher or of a Plugin:
\* the level is the default of the parameter
NewMessengerCall ==
  /\ msgr.news < MaxConstructions
  /\ msgr' = Messenger_constructor(msgr, Level["ACTION"])
  /\ MessengerFrame

\* log.setLevel(level), as main does for --quiet and --verbose
SetLevelCall ==
  /\ \E l \in {Level["WARNING"], Level["INFO"], Level["DEBUG"]} :
       msgr' = Messenger_setLevel(msgr, l)
  /\ MessengerFrame

\* a call of debug, info, action, warning or error
LogCall ==
  /\ \E l \in LogLevels : msgr' = Messenger_log(msgr, l)
  /\ MessengerFrame

NextMessenger == NewMessengerCall \/ SetLevelCall \/ LogCall

SpecMessenger == InitMessenger /\ [][NextMessenger]_vars

\* ----------------------------------------------------------------- claims
\* the options the last invocation resolved for its entry
CurOpts == ResolveOptions(NoMap, cur.e.opts)

\* the last invocation processed its entry (the conditional gate let it pass)
CurProcessed == runs > 0 /\ (CurOpts.test = "" \/ testSuccess(CurOpts.test))

\* the absolute target of the entry and the target representation that a
\* symbolic link at the link path is to record
AbsTarget(e) == join(baseDir, e.path)
Desired(e) ==
  IF ResolveOptions(NoMap, e.opts).relative
  THEN relative(dirname(e.link), AbsTarget(e)) ELSE AbsTarget(e)

\* the last two invocations were real runs of the same entry, the second on
\* the filesystem the first left behind
RealTwice == runs >= 2 /\ ~prev.dry /\ ~cur.dry /\ prev.e = cur.e

\* C1: a real run followed by a real run of the same spec performs no
\* filesystem mutation in the second run
C1_SecondRunNoMutation == RealTwice => cur.muts = <<>>

\* C2: when a real run succeeds, the re-run on the filesystem it left behind
\* succeeds too
C2_SecondRunSucceeds == (RealTwice /\ prev.ok) => cur.ok

\* the link path was, before the last invocation, a symbolic link whose
\* recorded target differs from the desired representation
CurDrifted ==
  /\ runs > 0
  /\ lstatIsLink(cur.pre, cur.e.link)
  /\ readlinkSync(cur.pre, cur.e.link) # Desired(cur.e)

\* C3: a processed entry whose link path is a symbolic link recorded with
\* another target fails when neither force nor relink is set, and the link
\* keeps its recorded target: nothing is removed or created
C3_NoSilentOverwrite ==
  (CurProcessed /\ CurDrifted /\ ~CurOpts.force /\ ~CurOpts.relink)
    => /\ ~cur.ok
       /\ cur.muts = <<>>
       /\ lstatIsLink(fs, cur.e.link)
       /\ readlinkSync(fs, cur.e.link) = readlinkSync(cur.pre, cur.e.link)

C3_Witness ==
  /\ CurProcessed /\ CurDrifted /\ ~CurOpts.force /\ ~CurOpts.relink
  /\ ~cur.dry /\ ~cur.ok
  /\ existsSync(cur.pre, AbsTarget(cur.e))

\* the link path exists, is no symbolic link, and is the very file the entry
\* declares as its target (equal real paths)
CurSameFile ==
  /\ runs > 0
  /\ existsSync(cur.pre, cur.e.link)
  /\ ~lstatIsLink(cur.pre, cur.e.link)
  /\ rpath(cur.pre, cur.e.link) = rpath(cur.pre, AbsTarget(cur.e))

\* C4: with force set, an entry whose link path is the same file as its
\* target fails and nothing is removed
C4_SameFileNeverDeleted ==
  (CurProcessed /\ CurSameFile /\ CurOpts.force)
    => (~cur.ok /\ cur.muts = <<>>)

DryThenReal ==
  runs >= 2 /\ prev.dry /\ ~cur.dry /\ prev.e = cur.e /\ prev.pre = cur.pre

\* C5: on the same entry and the same filesystem the dry run returns what
\* the real run returns and reports exactly the removals and creations the
\* real run performs
C5_DryRunAgrees ==
  DryThenReal => (prev.ok = cur.ok /\ prev.acts = cur.acts)

\* C7: in a real run, relink replaces a symbolic link recorded with another
\* target, when the declared target exists, by one recorded with the
\* desired target representation, and the entry succeeds
C7_RelinkRepairs ==
  (CurProcessed /\ ~cur.dry /\ CurDrifted /\ CurOpts.relink
   /\ CurOpts.linkType = "symlink" /\ existsSync(cur.pre, AbsTarget(cur.e)))
    => /\ cur.ok
       /\ lstatIsLink(fs, cur.e.link)
       /\ readlinkSync(fs, cur.e.link) = Desired(cur.e)

C7_Witness ==
  /\ CurProcessed /\ ~cur.dry /\ CurDrifted /\ CurOpts.relink
  /\ ~CurOpts.force /\ CurOpts.linkType = "symlink"
  /\ existsSync(cur.pre, AbsTarget(cur.e))
  /\ cur.muts # <<>>
  /\ readlinkSync(fs, cur.e.link) = Desired(cur.e)

\* C6: in dry-run mode a dispatch over the built-in handlers leaves the
\* filesystem as it was and executes no command of a shell directive
C6_DryRunPurity == dryRun => (fs = fs0 /\ shellRan = {})

\* the create handler ran in dry-run mode on a missing directory and the link
\* handler on a link path it would have had to replace
C6_Witness ==
  /\ dryRun
  /\ last.action = "link"
  /\ Len(last.calls) = 1
  /\ Len(last.resolved) = 2
  /\ lstatIsLink(fs, HL)
  /\ readlinkSync(fs, HL) = DB
  /\ ~existsSync(fs, HP)

ForceDefaults == ("link" :> ("force" :> TRUE))
RelinkDefaults == ("link" :> ("relink" :> TRUE))

\* C8: after defaults {link: {force: true}} followed by defaults
\* {link: {relink: true}}, a link entry that sets neither option is
\* resolved with force = false and relink = true
C8_DefaultsReplace ==
  (defHist = <<ForceDefaults, RelinkDefaults>> /\ last.action = "link"
   /\ ~last.filtered)
    => \A i \in 1..Len(last.resolved) :
         ("force" \notin DOMAIN last.resolved[i].opts
          /\ "relink" \notin DOMAIN last.resolved[i].opts)
           => (~last.resolved[i].o.force /\ last.resolved[i].o.relink)

\* the drifted link was repaired under the second defaults block
C8_Witness ==
  /\ defHist = <<ForceDefaults, RelinkDefaults>>
  /\ last.action = "link" /\ ~last.filtered
  /\ Len(last.resolved) = 1
  /\ DOMAIN last.resolved[1].opts = {}
  /\ last.calls = <<[idx |-> 3, res |-> "true"]>>
  /\ ~dryRun
  /\ readlinkSync(fs, HL) = DA
  /\ readlinkSync(fs0, HL) = DB

\* the registered handlers that are to be invoked for an action, in
\* registry order
ExpectedCalls(regs, action, dry) ==
  SelectSeq([i \in 1..Len(regs) |-> i],
            LAMBDA i : CanHandle(regs[i], action)
                       /\ ~(dry /\ ~SupportsDryRun(regs[i])))

\* C9: without fail-fast every registered handler that claims a directive
\* which is not filtered out, and is not skipped by the dry-run gate, is
\* invoked exactly once, in registry order, and the run stays successful
\* only if all of them returned true
C9_FanOut ==
  (~exitOnFailure /\ last.action \notin {"", "invalid"} /\ ~last.filtered)
    => /\ [i \in 1..Len(last.calls) |-> last.calls[i].idx]
            = ExpectedCalls(plugins, last.action, dryRun)
       /\ success => \A i \in 1..Len(last.calls) : last.calls[i].res = "true"

\* two handlers claimed the directive; the first failed, the second was
\* invoked all the same
C9_Witness ==
  /\ ~exitOnFailure /\ ~dryRun
  /\ Len(last.calls) = 2
  /\ last.calls[1].res = "false"
  /\ last.calls[2].res = "true"
  /\ ~success

\* C10: dispatch returns true iff no directive failed (handler returned
\* false or threw, plugin module failed to load) and no directive that was
\* not filtered out was left unclaimed
C10_ReturnIff ==
  pc = "done" => (result <=> ("failed" \notin seen /\ "unclaimed" \notin seen))

\* C10 amended: dispatch returns true iff no directive failed, no directive
\* that was not filtered out was left unclaimed, no task was malformed and
\* no plugins payload was something else than an array
C10_ReturnIffWellFormed == pc = "done" => (result <=> seen = {})

C10_Witness ==
  /\ pc = "done" /\ ~result /\ seen = {"malformed"}
  /\ last.action = "link" /\ last.calls = <<[idx |-> 3, res |-> "true"]>>

\* under fail-fast a call that did not return true is the last call of the
\* dispatch, and an unclaimed directive or an aborted one ends it with false
FailFastEnds ==
  exitOnFailure =>
    /\ \A i \in 1..Len(last.calls) :
         last.calls[i].res # "true"
           => (i = Len(last.calls) /\ last.aborted)
    /\ "unclaimed" \in seen => (last.aborted /\ last.calls = <<>>)
    /\ last.aborted => (pc = "done" /\ ~result)

\* C11: with exit-on-failure set, a handler returning false, a handler
\* throwing or an unclaimed directive makes dispatch return false at once:
\* no handler is invoked after it, and once dispatch has returned nothing
\* changes any more (no defaults replacement, no registration)
C11_FailFastAbort == [](FailFastEnds) /\ [][pc = "running"]_vars

\* two handlers claim the directive; the first failed and the second was
\* never invoked
C11_Witness ==
  /\ exitOnFailure /\ pc = "done" /\ ~result /\ last.aborted
  /\ Len(last.calls) = 1
  /\ last.calls[1].res # "true"
  /\ Len(ExpectedCalls(plugins, last.action, dryRun)) = 2

\* a handler of the last directive threw
LastThrew == \E i \in 1..Len(last.calls) : last.calls[i].res = "throw"

\* C12: without fail-fast an exception thrown by a handler does not end the
\* dispatch: the remaining handlers of the directive are invoked, later
\* directives are processed, dispatch ends only by returning `success`,
\* and that result is false
C12_ExceptionsContained ==
  ~exitOnFailure =>
    /\ ~last.aborted
    /\ pc = "done" => result = success
    /\ LastThrew => [i \in 1..Len(last.calls) |-> last.calls[i].idx]
                      = ExpectedCalls(plugins, last.action, dryRun)
    /\ "threw" \in seen => (~success /\ (pc = "done" => ~result))

\* a handler threw, a later directive was handled all the same, and dispatch
\* returned false
C12_Witness ==
  /\ ~exitOnFailure /\ "threw" \in seen /\ ~LastThrew
  /\ last.action = "link" /\ last.calls = <<[idx |-> 3, res |-> "true"]>>
  /\ pc = "done" /\ ~result

\* the action is claimed, and only by handlers whose class does not declare
\* supportsDryRun
OnlyDryRunUnaware(regs, action) ==
  /\ \E i \in 1..Len(regs) : CanHandle(regs[i], action)
  /\ \A i \in 1..Len(regs) : CanHandle(regs[i], action) => ~SupportsDryRun(regs[i])

\* in dry-run mode every handler that was invoked declares supportsDryRun
DryRunCallsAware ==
  dryRun => \A i \in 1..Len(last.calls) :
              SupportsDryRun(plugins[last.calls[i].idx])

\* C13: in dry-run mode a handler whose class does not declare
\* supportsDryRun is never invoked, and a directive claimed only by such
\* handlers is handled: it invokes nothing, leaves `success` as it was and
\* does not end the dispatch
C13_DryRunGating ==
  /\ [](DryRunCallsAware)
  /\ [][(dryRun /\ last' # last /\ ~last'.filtered
         /\ OnlyDryRunUnaware(plugins', last'.action))
          => (last'.calls = <<>> /\ last'.skipped # <<>>
              /\ success' = success /\ pc' = "running")]_vars

\* the directive was claimed by a dry-run-unaware handler only; it was
\* skipped and dispatch returned true
C13_Witness ==
  /\ dryRun /\ last.action = "aux" /\ ~last.filtered
  /\ OnlyDryRunUnaware(plugins, "aux")
  /\ last.calls = <<>> /\ last.skipped # <<>>
  /\ pc = "done" /\ result

\* the action is excluded by --only or named by --except
Excluded(action) ==
  (only.def /\ action \notin only.v) \/ (skip.def /\ action \in skip.v)

\* the Context holds the payload of the last defaults directive
DefaultsApplied ==
  last.action = "defaults"
    => (~last.filtered /\ defHist # <<>> /\ defaults = defHist[Len(defHist)])

\* C14: a directive other than defaults that --only excludes or --except
\* names invokes no handler, leaves the Context defaults, the registries,
\* the filesystem and `success` as they were and does not end the dispatch;
\* a defaults directive is applied to the Context whatever the filters say
C14_FilteredSkipped ==
  /\ [][(last' # last /\ last'.action \notin {"", "invalid", "defaults"}
         /\ Excluded(last'.action))
          => (last'.calls = <<>> /\ last'.skipped = <<>>
              /\ UNCHANGED <<fs, defaults, plugins, ctxPlugins, success, pc,
                             result, shellRan>>)]_vars
  /\ [](DefaultsApplied)

\* --only link excludes defaults, plugins and shell: the defaults block was
\* applied all the same, the plugins and the shell directive did nothing
C14_Witness ==
  /\ only.def /\ Excluded("defaults") /\ Excluded("shell")
  /\ defaults = RelinkDefaults
  /\ last.action = "shell" /\ last.filtered
  /\ plugins = BuiltIns /\ shellRan = {} /\ success

\* a module path of the last plugins directive could not be loaded
LastLoadFailed ==
  /\ last.action = "plugins" /\ ~last.filtered
  /\ \E i \in 1..Len(last.paths) : ~Loadable(last.paths[i])

\* every class exported by the loadable modules of the last plugins
\* directive is registered
LoadableRegistered ==
  \A i \in 1..Len(last.paths) :
    Loadable(last.paths[i]) =>
      \A k \in 1..Len(Exports(last.paths[i])) :
        \E j \in 1..Len(plugins) : plugins[j] = Exports(last.paths[i])[k]

\* a load failure makes the run fail; under fail-fast the plugins directive
\* is the last one processed; without it the remaining modules of the
\* directive are loaded and the dispatch goes on
LoadFailureMarks ==
  /\ "loadFailed" \in seen => (~success /\ (pc = "done" => ~result))
  /\ ("loadFailed" \in seen /\ exitOnFailure)
       => (pc = "done" /\ last.action = "plugins" /\ last.aborted)
  /\ (LastLoadFailed /\ ~exitOnFailure) => (~last.aborted /\ LoadableRegistered)

\* C15: when a module of a plugins directive fails to load, dispatch
\* eventually returns false; without fail-fast the remaining modules of the
\* directive and the later directives are processed, with fail-fast no
\* later directive is
C15_LoadFailure ==
  /\ [](LoadFailureMarks)
  /\ ("loadFailed" \in seen) ~> (pc = "done" /\ ~result)

\* the module after the failing one was loaded: its handler handled a later
\* directive, and dispatch returned false
C15_Witness ==
  /\ ~exitOnFailure /\ "loadFailed" \in seen
  /\ plugins = BuiltIns \o <<"Aux">>
  /\ last.action = "aux" /\ last.calls = <<[idx |-> 5, res |-> "true"]>>
  /\ pc = "done" /\ ~result

\* the options the specification names
SpecOptionNames == OptionNames \ {"canonicalize-path"}

\* the built-in default of an option
BuiltInDefault(k) ==
  CASE k = "type"         -> "symlink"
    [] k = "canonicalize" -> TRUE
    [] k = "prefix"       -> ""
    [] k = "if"           -> ""
    [] k = "exclude"      -> <<>>
    [] OTHER              -> FALSE

\* a block gives the option, under its name or, for canonicalize, under the
\* legacy spelling
Gives(block, k) ==
  k \in DOMAIN block
  \/ (k = "canonicalize" /\ "canonicalize-path" \in DOMAIN block)

GivenValue(block, k) ==
  IF k \in DOMAIN block THEN block[k] ELSE block["canonicalize-path"]

\* per-entry value > link defaults > built-in default
Precedence(opts, defs, k) ==
  IF Gives(opts, k) THEN GivenValue(opts, k)
  ELSE IF Gives(defs, k) THEN GivenValue(defs, k)
  ELSE BuiltInDefault(k)

\* the resolved value of an option
Resolved(o, k) ==
  CASE k = "type"           -> o.linkType
    [] k = "force"          -> o.force
    [] k = "relink"         -> o.relink
    [] k = "create"         -> o.create
    [] k = "relative"       -> o.relative
    [] k = "canonicalize"   -> o.canonicalPath
    [] k = "glob"           -> o.useGlob
    [] k = "prefix"         -> o.basePrefix
    [] k = "if"             -> o.test
    [] k = "ignore-missing" -> o.ignoreMissing
    [] k = "exclude"        -> o.excludePaths

\* C16: every option of every link entry resolves to the per-entry value if
\* the entry gives one, else to the value of the current link defaults if
\* they give one, else to the built-in default
C16_OptionPrecedence ==
  \A i \in 1..Len(last.resolved) :
    \A k \in SpecOptionNames :
      Resolved(last.resolved[i].o, k)
        = Precedence(last.resolved[i].opts, Coalesce(defaults, "link", NoMap), k)

\* an entry that sets force to false under link defaults that set every
\* option to true: force resolves to false, relink to true
C16_Witness ==
  /\ Coalesce(defaults, "link", NoMap) = FullBlock(TRUE)
  /\ Len(last.resolved) = 1
  /\ last.resolved[1].opts = ("force" :> FALSE)
  /\ ~last.resolved[1].o.force
  /\ last.resolved[1].o.relink

\* the matches the last invocation ran its steps for
CurMatches == { cur.acts[i][2] : i \in { j \in 1..Len(cur.acts) :
                                           cur.acts[j][1] = "match" } }

\* C17: in the glob branch no create, delete or link step is run for a path
\* that an exclude pattern of the entry matches
C17_GlobExclude ==
  runs > 0 =>
    \A q \in CurMatches :
      \A i \in 1..Len(CurOpts.excludePaths) :
        ~PatMatch(CurOpts.excludePaths[i], q)

\* what defaults() and options() are to return: the defaults the dispatcher
\* set last, and the options the Context was constructed with
CurrentDefaults == TreeOfDefaults(defaults)
CurrentOptions == TreeOfOptions(dryRun, exitOnFailure, only, skip)

\* a snapshot a handler holds no longer has the value it was returned with
MutatedSnapshots ==
  { v \in held : StructuredSerialize(heap, v) \notin {CurrentDefaults,
                                                       CurrentOptions} }

\* C18: whatever the handlers did to the values they were returned, a call
\* of defaults() returns the current defaults and a call of options() the
\* options of the run, and the objects of the Context keep those values
C18_SnapshotsAreCopies ==
  /\ ret.kind = "defaults" => ret.value = CurrentDefaults
  /\ ret.kind = "options" => ret.value = CurrentOptions
  /\ StructuredSerialize(heap, ctx.defaults) = CurrentDefaults
  /\ StructuredSerialize(heap, ctx.options) = CurrentOptions

\* a call of defaults() made while a handler holds a snapshot that it has
\* mutated, with defaults that have an option block
C18_Witness ==
  /\ ret.kind = "defaults"
  /\ "link" \in DOMAIN defaults
  /\ MutatedSnapshots # {}

\* C19: baseDirectory(true) is the base path with every symbolic link in it
\* resolved, baseDirectory(false) is the base path as configured, and the two
\* differ when the base directory is reached through a symbolic link
C19_CanonicalBase ==
  /\ baseDirectory(baseDir, TRUE) = rpath(fs0, baseDir)
  /\ baseDirectory(baseDir, FALSE) = baseDir
  /\ rpath(fs0, baseDir) # baseDir
       => baseDirectory(baseDir, TRUE) # baseDirectory(baseDir, FALSE)

\* the location a symbolic link points at: its target, taken from the
\* directory of the link when it is relative
PointsAt(f, path) ==
  IF readlinkSync(f, path)[1] = "/" THEN normalize(readlinkSync(f, path))
  ELSE normalize(dirname(path) \o readlinkSync(f, path))

\* the last step was a real run of the clean handler on the home directory,
\* without force
CleanedHome ==
  /\ last.action = "clean" /\ ~last.filtered /\ ~dryRun
  /\ \E i \in 1..Len(last.calls) : plugins[last.calls[i].idx] = "Clean"

\* C20: the clean handler without force removes a broken symbolic link of
\* the cleaned directory if and only if the location it points at lies
\* inside the base directory; here, once /h was cleaned, no broken link that
\* points into the base directory is left in it
C20_CleanRule ==
  CleanedHome =>
    \A item \in readdirSync(fs, H) :
      ~(/\ lstatIsLink(fs, Append(H, item))
        /\ ~existsSync(fs, Append(H, item))
        /\ IsPrefix(resolve(baseDir), PointsAt(fs, Append(H, item))))

StdoutDefaults == ("shell" :> ("stdout" :> TRUE))

\* C21: a defaults directive whose payload does not name a directive leaves
\* the defaults set for that directive unchanged: after defaults
\* {link: {force: true}} and then defaults {shell: {stdout: true}}, a link
\* entry that does not set force is resolved with force = true
C21_DefaultsFrame ==
  (defHist = <<ForceDefaults, StdoutDefaults>> /\ last.action = "link"
   /\ ~last.filtered)
    => \A i \in 1..Len(last.resolved) :
         "force" \notin DOMAIN last.resolved[i].opts
           => last.resolved[i].o.force

\* the last invocation removed the link path, or reported its removal
CurRemoved == \E i \in 1..Len(cur.acts) : cur.acts[i][1] = "remove"

\* C22: the delete step removes the link path, or in dry-run reports the
\* removal, only when (a) the link path is a symbolic link whose recorded
\* target differs from the desired one, or (b) it exists, is not a symbolic
\* link, and force is set
C22_DeleteDecision ==
  (runs > 0 /\ CurRemoved)
    => \/ /\ lstatIsLink(cur.pre, cur.e.link)
          /\ readlinkSync(cur.pre, cur.e.link) # Desired(cur.e)
       \/ /\ lstatOk(cur.pre, cur.e.link)
          /\ ~lstatIsLink(cur.pre, cur.e.link)
          /\ CurOpts.force

\* the last invocation found no target, and the link path either absent in
\* an existing directory or a symbolic link that records the desired target
CurMissingTarget ==
  /\ CurProcessed
  /\ ~existsSync(cur.pre, AbsTarget(cur.e))
  /\ \/ /\ ~lstatOk(cur.pre, cur.e.link)
        /\ statIsDir(cur.pre, dirname(cur.e.link))
     \/ /\ lstatIsLink(cur.pre, cur.e.link)
        /\ readlinkSync(cur.pre, cur.e.link) = Desired(cur.e)

\* C23: with ignore-missing = true an entry does not fail because its target
\* does not exist, whether the link path is absent or is already a symbolic
\* link recorded with the desired target
C23_IgnoreMissing ==
  (CurMissingTarget /\ CurOpts.ignoreMissing /\ CurOpts.linkType = "symlink")
    => cur.ok

\* the last invocation processed an entry whose target does not exist,
\* with ignore-missing = false
CurFailsEarly ==
  /\ CurProcessed
  /\ ~CurOpts.ignoreMissing
  /\ ~existsSync(cur.pre, AbsTarget(cur.e))

\* C24: when the target does not exist and ignore-missing is false, the
\* entry fails, no removal and no link creation is performed or reported,
\* and whatever existed before the invocation is left as it was
C24_MissingTargetFailsEarly ==
  CurFailsEarly
    => /\ ~cur.ok
       /\ \A i \in 1..Len(cur.acts) : cur.acts[i][1] \notin {"remove", "create"}
       /\ \A i \in 1..Len(cur.muts) : cur.muts[i][1] = "mkdir"
       /\ \A q \in DOMAIN cur.pre : q \in DOMAIN fs /\ fs[q] = cur.pre[q]

\* a real run with force on a link path that holds a file, the target
\* missing: the entry failed and the file is still there
C24_Witness ==
  /\ CurFailsEarly
  /\ ~cur.dry
  /\ CurOpts.force
  /\ KindAt(cur.pre, lpath(cur.pre, cur.e.link)) = "file"
  /\ KindAt(fs, lpath(fs, cur.e.link)) = "file"
  /\ ~cur.ok

\* the directory part of a pattern, and whether it is free of wildcards
PatternDir(pat) == SubSeq(pat, 1, Len(pat) - 1)
PlainDir(pat) == ~hasGlobChars(PatternDir(pat))

\* the link path of a match: the link path joined with the prefix followed
\* by the suffix of the match relative to the directory part of the pattern
MatchLinkPath(e, o, m) ==
  join(e.link,
       finalGlobItem(o.basePrefix,
                     SubSeq(m, Len(PatternDir(e.path)) + 1, Len(m))))

\* C25: for a glob pattern whose directory part holds no wildcard, every
\* link the invocation creates, or reports to create, is at the link path of
\* one of its matches: pattern config/* and match config/x give L/x
C25_GlobLinkPath ==
  (runs > 0 /\ PlainDir(cur.e.path))
    => \A i \in 1..Len(cur.acts) :
         cur.acts[i][1] = "create"
           => \E m \in CurMatches :
                cur.acts[i][2] = MatchLinkPath(cur.e, CurOpts, m)

\* the defaults in force: the payload of the latest defaults directive
\* dispatched so far
InForce == IF defHist = <<>> THEN NoMap ELSE defHist[Len(defHist)]

\* the entries of the link directive dispatched last were resolved with the
\* defaults in force
LinkUsesInForce ==
  (last.action = "link" /\ ~last.filtered)
    => \A i \in 1..Len(last.resolved) :
         last.resolved[i].o
           = ResolveOptions(Coalesce(InForce, "link", NoMap),
                            last.resolved[i].opts)

\* C26: the directives are processed one after the other, and a defaults
\* directive takes effect only for the directives dispatched after it: a
\* link directive is resolved with the payload of the latest defaults
\* directive before it, and the defaults directive itself resolves no entry
\* and leaves the filesystem as the directives before it made it
C26_InOrder ==
  /\ [](LinkUsesInForce)
  /\ [][last'.action = "defaults" => (last'.resolved = <<>> /\ fs' = fs)]_vars

\* a link directive that follows defaults {link: {force: true}} replaced
\* the file at the link path of an entry that does not set force
C26_Witness ==
  /\ defHist = <<ForceDefaults>>
  /\ last.action = "link" /\ ~last.filtered /\ ~dryRun
  /\ Len(last.resolved) = 1
  /\ "force" \notin DOMAIN last.resolved[1].opts
  /\ last.resolved[1].o.force
  /\ fs # fs0

\* the class names registered in the dispatcher are pairwise distinct
NoDuplicateHandlers ==
  \A i, j \in 1..Len(plugins) : plugins[i] = plugins[j] => i = j

\* no handler of one class is invoked twice for the last directive
NoDoubleExecution ==
  \A i, j \in 1..Len(last.calls) :
    plugins[last.calls[i].idx] = plugins[last.calls[j].idx] => i = j

\* C27: a handler class is registered in the dispatcher at most once per
\* class name, whatever modules the plugins directives load (a module listed
\* twice included), so no directive is executed twice by the same plugin
C27_NoDuplicateRegistration ==
  NoDuplicateHandlers /\ NoDoubleExecution

\* the class names Context.plugins() returns
RegistrySnapshot ==
  {Context_plugins(ctxPlugins)[j] : j \in 1..Len(Context_plugins(ctxPlugins))}

\* C28: every handler class a plugins directive has loaded and registered
\* in the dispatcher is in the list Context.plugins() returns
C28_RegistryCurrent ==
  \A i \in 1..Len(plugins) : plugins[i] \in RegistrySnapshot

\* the `if` command the last invocation resolved for its entry exited
\* non-zero
CurGated ==
  runs > 0 /\ CurOpts.test # "" /\ shellCommand(CurOpts.test) # 0

\* a directive that lists an entry after the gated one does to the
\* filesystem, returns and reports what the directive of that entry alone
\* does
RestProcessed ==
  \A n \in {BareEntry, DeepEntry} :
    Link_processLinks(cur.pre, baseDir, cur.dry, NoMap, <<cur.e, n>>)
      = Link_processLinks(cur.pre, baseDir, cur.dry, NoMap, <<n>>)

\* C29: an entry whose `if` command exits non-zero is skipped: no create,
\* delete or link step runs for it, the filesystem is as it was, the entry
\* does not make the directive fail, and the entries after it are processed
C29_ConditionalGate ==
  CurGated =>
    /\ cur.ok
    /\ cur.muts = <<>> /\ cur.acts = <<>>
    /\ fs = cur.pre
    /\ RestProcessed

\* a gated entry of a real run whose link path is free, in an existing
\* directory, and whose target exists: without the gate it creates a link
C29_Witness ==
  /\ CurGated /\ ~cur.dry
  /\ cur.e.link = HL /\ ~lstatOk(fs, HL)
  /\ existsSync(fs, AbsTarget(cur.e))
  /\ Link_processLinks(fs, baseDir, FALSE, NoMap, <<BareEntry>>).fs # fs

\* the last invocation, a real run, processed a hardlink entry whose link
\* path was an existing node other than a symbolic link, and force did not
\* ask for its removal
CurHardlinkOverFile ==
  /\ CurProcessed /\ ~cur.dry
  /\ CurOpts.linkType = "hardlink" /\ ~CurOpts.force
  /\ lstatOk(cur.pre, cur.e.link) /\ ~lstatIsLink(cur.pre, cur.e.link)

\* a and b name one file: stat gives the same st_dev and the same st_ino
SameDevIno(f, a, b) ==
  /\ existsSync(f, a) /\ existsSync(f, b)
  /\ \/ rpath(f, a) = rpath(f, b)
     \/ /\ KindAt(f, rpath(f, a)) = "file"
        /\ KindAt(f, rpath(f, b)) = "file"
        /\ DevAt(f, rpath(f, a)) = DevAt(f, rpath(f, b))
        /\ f[rpath(f, a)].ino = f[rpath(f, b)].ino

\* C30: a hardlink entry over an existing node that is not a symbolic link
\* succeeds, leaving the filesystem as it is, exactly when the link path
\* and the target have the same device and the same inode
C30_HardlinkIdentity ==
  CurHardlinkOverFile =>
    /\ cur.ok <=> SameDevIno(cur.pre, cur.e.link, AbsTarget(cur.e))
    /\ fs = cur.pre

\* the matches of the glob entry of the last invocation, in the order of
\* the loop
CurGlobResults ==
  Link_createGlobResults(cur.pre, baseDir, cur.e.path, CurOpts.excludePaths)

\* the outcome of every match, each processed on the filesystem that the
\* matches before it left
RECURSIVE MatchOutcomes(_, _)
MatchOutcomes(f, ms) ==
  IF ms = <<>> THEN <<>>
  ELSE Let(GlobItem(f, baseDir, cur.dry, cur.e, CurOpts, Head(ms)), LAMBDA r :
         <<r.ok>> \o MatchOutcomes(r.fs, Tail(ms)))

\* an entry listed after the glob entry
PublicEntry ==
  [link |-> Append(H, "pub"), path |-> <<"config", "public">>, opts |-> NoMap]
MissingEntry ==
  [link |-> Append(H, "mis"), path |-> <<"config", "missing">>, opts |-> NoMap]

\* the directive of the glob entry followed by the entry n returns the
\* conjunction of the two outcomes, and n is processed on the filesystem the
\* glob entry left
FollowedBy(n) ==
  Let(Link_processLinks(cur.pre, baseDir, cur.dry, NoMap, <<cur.e, n>>),
      LAMBDA both :
  Let(Link_processLinks(fs, baseDir, cur.dry, NoMap, <<n>>), LAMBDA after :
    /\ both.ok = (cur.ok /\ after.ok)
    /\ both.fs = after.fs
    /\ both.muts = cur.muts \o after.muts))

\* C31: the link handler returns true iff every entry and every glob match
\* it processed succeeded, and a failed entry or match does not stop the
\* processing of those that follow
C31_DirectiveResult ==
  runs > 0 =>
    Let(MatchOutcomes(cur.pre, CurGlobResults), LAMBDA oks :
      /\ cur.ok <=> \A i \in 1..Len(oks) : oks[i]
      /\ CurMatches = Range(CurGlobResults)
      /\ FollowedBy(PublicEntry) /\ FollowedBy(MissingEntry))

\* a real run where one match failed, a later one was linked, and the
\* handler returned false
C31_Witness ==
  /\ runs > 0 /\ ~cur.dry /\ ~cur.ok
  /\ \E i \in 1..Len(MatchOutcomes(cur.pre, CurGlobResults)) :
       /\ ~MatchOutcomes(cur.pre, CurGlobResults)[i]
       /\ \E j \in (i + 1)..Len(MatchOutcomes(cur.pre, CurGlobResults)) :
            MatchOutcomes(cur.pre, CurGlobResults)[j]
  /\ cur.muts # <<>>

\* the parent directory the create step of the last invocation makes
CurParent == resolve(join(cur.e.link, <<"..">>))

\* the create step of the last invocation, a real run, called mkdir and the
\* call failed
MkdirFailed ==
  /\ CurProcessed /\ ~cur.dry /\ CurOpts.create
  /\ ~existsSync(cur.pre, CurParent)
  /\ ~mkdirSyncRecursive(cur.pre, CurParent).ok

\* the link step of the last invocation, a real run of an entry with no
\* create and no delete step, called symlink or link and the call failed
LinkCallFailed ==
  /\ CurProcessed /\ ~cur.dry
  /\ ~CurOpts.create /\ ~CurOpts.force /\ ~CurOpts.relink
  /\ ~lstatOk(cur.pre, cur.e.link)
  /\ existsSync(cur.pre, AbsTarget(cur.e))
  /\ ~(IF CurOpts.linkType = "symlink"
       THEN symlinkSync(cur.pre, Desired(cur.e), resolve(cur.e.link))
       ELSE linkSync(cur.pre, AbsTarget(cur.e), resolve(cur.e.link))).ok

\* what Link.handle gives the dispatcher for the directive of the last
\* invocation
CurHandleResult ==
  Handle_plugin("Link", "link", <<cur.e>>, cur.pre, baseDir, cur.dry, NoMap,
                [c \in ExternalClasses |-> "true"]).res

\* C32: a filesystem call that fails in the create or the link step makes
\* the entry fail and handle return false; handle does not throw, and an
\* entry listed after it is processed
C32_FailuresAreValues ==
  /\ runs > 0 => CurHandleResult = BoolRes(cur.ok)
  /\ (MkdirFailed \/ LinkCallFailed) =>
       /\ ~cur.ok
       /\ CurHandleResult = "false"
       /\ FollowedBy(BareEntry)

\* a failed mkdir, a failed symlink and a failed link
C32_Witness ==
  \/ MkdirFailed /\ cur.e.link = PL
  \/ LinkCallFailed /\ CurOpts.linkType = "symlink" /\ cur.e.link = PL
  \/ LinkCallFailed /\ CurOpts.linkType = "hardlink" /\ cur.e.link = HL

\* the names of the model that start with a dot
DotNames == {".hidden"}

\* C33: a file whose name starts with a dot is a match of a glob entry only
\* when a segment of the pattern starts with a dot: config/* gives no match
\* config/.hidden
C33_GlobDotfiles ==
  runs > 0 =>
    \A m \in CurMatches :
      m[Len(m)] \in DotNames =>
        \E i \in 1..Len(cur.e.path) : cur.e.path[i] \in DotNames

\* no directory between the cleaned target and the path is a symbolic link
\* in the filesystem f
ReachedThroughRealDirs(f, target, path) ==
  \A k \in (Len(target) + 1)..(Len(path) - 1) :
    ~lstatIsLink(f, SubSeq(path, 1, k))

\* C34: every link the clean handler removes, or reports to remove, is
\* reached from the cleaned directory through real directories only: the
\* recursion does not descend into a directory that is a symbolic link
C34_CleanNoSymlinkDescent ==
  runs > 0 =>
    \A i \in 1..Len(cur.acts) :
      ReachedThroughRealDirs(cur.pre, cur.e.target, cur.acts[i][2])

\* a directive is in progress: its iteration began and has not ended, or a
\* handler called for it is still running
InProgress == task.phase # "top" \/ task.running # {}

\* C35: at most one handler is running at any time; a handler is called, a
\* directive begins, the defaults are replaced and a handler is registered
\* only while no handler is running
C35_Sequential ==
  /\ [](Cardinality(task.running) <= 1)
  /\ [][(task'.running # task.running /\ task'.running # {})
          => task.running = {}]_vars
  /\ [][(task'.d # task.d /\ task'.d # <<>>) => ~InProgress]_vars
  /\ [][(defaults' # defaults \/ plugins' # plugins)
          => task.running = {}]_vars

\* a handler that a plugins directive registered is running, in a dispatch
\* whose defaults were replaced
C35_Witness ==
  /\ task.running # {}
  /\ \E j \in task.running : plugins[j] = "Aux"
  /\ defaults # NoMap

\* the last invocation, a real run, processed a symlink entry that has no
\* `if` test, and the entry succeeded
CurSymlinkSucceeded ==
  /\ runs > 0 /\ ~cur.dry /\ cur.ok
  /\ CurOpts.test = ""
  /\ CurOpts.linkType = "symlink"

\* C36: when a symlink entry of a real run succeeds, the link path is a
\* symbolic link that records the desired target representation: the
\* absolute target, or the target relative to the directory of the link
C36_SuccessMeansLinked ==
  CurSymlinkSucceeded =>
    /\ lstatIsLink(fs, cur.e.link)
    /\ readlinkSync(fs, cur.e.link) = Desired(cur.e)

\* a relative link was created by the invocation
C36_Witness ==
  /\ CurSymlinkSucceeded /\ CurOpts.relative
  /\ ~lstatOk(cur.pre, cur.e.link)
  /\ readlinkSync(fs, cur.e.link) = Desired(cur.e)
  /\ cur.muts # <<>>

\* C37: once a level was set with setLevel, it is the level in effect, and
\* a message is printed iff its level is at least the level set, however
\* many times `new Messenger()` was evaluated since
C37_StickyLevel ==
  msgr.set # -1 =>
    /\ msgr.level = msgr.set
    /\ msgr.out.level # -1 => (msgr.out.printed <=> msgr.out.level >= msgr.level)

\* C38: under fail-fast, a plugins directive ends the dispatch only when
\* one of its own module paths could not be loaded
C38_PluginsAbortOnlyOwnFailure ==
  (exitOnFailure /\ last.action = "plugins" /\ ~last.filtered /\ last.aborted)
    => LastLoadFailed


====
